---- MODULE Spec2Model ----
(***************************************************************************)
(* Persistence layer of AxI_calendar: the Theme and Entry repositories    *)
(* over one DynamoDB table (single-table design).  Every repository       *)
(* method is a sequence of store calls; each store call is one atomic     *)
(* step, so concurrent callers interleave at store-call granularity.      *)
(***************************************************************************)
EXTENDS Integers, FiniteSets, Sequences, TLC

VARIABLES table, call, ret, now, faults, issued

vars == <<table, call, ret, now, faults, issued>>

(***************************************************************************)
(* Bounds                                                                  *)
(***************************************************************************)
MaxTime == 2        \* instants of the clock read by time.Now()
MaxFaults == 2      \* store calls that fail for infrastructure reasons
MaxDate == 3        \* calendar dates 1..MaxDate (YYYY-MM-DD, ordered)

Clients == {"c1", "c2"}
Users == {"u1", "u2"}
EntryIDs == {"e1"}
GenIDs == {"g1"}
DataVals == {"x", "y"}
UpdateData == {"y"}
Dates == 1..MaxDate

Nil == "nil"            \* uuid.Nil
NoDate == 0             \* the empty EntryDate string
ZeroTime == 0           \* the zero time.Time
NoItem == [PK |-> <<>>, SK |-> <<>>]

\* A partition key with the prefix OWNER# in place of USER#.
ownerPK(userID) == <<"OWNER", userID>>

(***************************************************************************)
(* Key derivation                                                          *)
(***************************************************************************)
userPK(userID) == <<"USER", userID>>

entrySK(date, entryID) == <<"ENTRY", date, entryID>>

entryDateSKPrefix(date) == <<"ENTRY_DATE", date>>

userGSI1PK(userID) == userPK(userID)

entryGSI1SK(date, themeID) == entryDateSKPrefix(date) \o <<themeID>>

themePK(themeID) == <<"THEME", themeID>>

themeMetadataSK == <<"METADATA">>

\* A link sort key that shares the prefix of the entry sort keys.
userThemeLinkSKAmongEntries(themeID) == <<"ENTRY", themeID>>

userThemeLinkSK(themeID) == <<"THEME", themeID>>

(***************************************************************************)
(* The store: a set of items, at most one per (PK, SK)                     *)
(***************************************************************************)
ItemsAt(t, pk, sk) == {it \in t : it.PK = pk /\ it.SK = sk}

Exists(t, pk, sk) == ItemsAt(t, pk, sk) # {}

StorePut(t, item) == (t \ ItemsAt(t, item.PK, item.SK)) \cup {item}

StoreDelete(t, pk, sk) == t \ ItemsAt(t, pk, sk)

(***************************************************************************)
(* Calls.  call[p] is the call client p has in flight (IdleCall when it    *)
(* has none); ret is what the step just taken returned to its caller       *)
(* (IdleCall when that step returned nothing).                             *)
(***************************************************************************)
\* An error value of a validation: its message, the index, the name and the
\* argument the message is formatted with, and the message it is wrapped in
\* (fmt.Errorf("...: %w", err)).
Error(msg, index, name, arg) ==
    [msg |-> msg, index |-> index, name |-> name, arg |-> arg, wrap |-> ""]

\* The nil error.
NoError == Error("nil", -1, <<>>, "")

\* Sentinel errors of package domain.  errors.Is(err, target) holds when err
\* is target or wraps it; an error made by errors.New at the point of return
\* is a value of its own and is no sentinel, whatever its message.
ErrNotFound == "domain.ErrNotFound"

ErrForbidden == "domain.ErrForbidden"

ErrThemeNotFound == "domain.ErrThemeNotFound"

ErrEntryNotFound == "domain.ErrEntryNotFound"

ErrCannotDeleteDefaultTheme == "domain.ErrCannotDeleteDefaultTheme"

ErrAlreadyExists == "domain.ErrAlreadyExists"

errorsIs(err, target) == err = target

\* uc is the use case the call is made by ("" for a call made on the
\* repository itself), status and result the HTTP status and message the use
\* case returns, repoErr the repository error behind them, detail the
\* validation error formatted into the message.
IdleCall == [op |-> "idle", phase |-> "idle", userID |-> Nil, id |-> Nil,
             date |-> NoDate, themeID |-> Nil, data |-> "-",
             name |-> "-", fields |-> "-", features |-> "-",
             createdAt |-> ZeroTime, oldDate |-> NoDate, reasons |-> <<>>,
             result |-> "-", cause |-> "-", logged |-> {}, ret |-> NoItem,
             raced |-> FALSE, sawDefault |-> FALSE, sawOwner |-> Nil,
             startDate |-> <<NoDate, 0>>, endDate |-> <<NoDate, 0>>,
             queried |-> FALSE, items |-> {},
             peer |-> "-", peerDate |-> NoDate,
             uc |-> "", status |-> 0, repoErr |-> "-", detail |-> NoError]

\* Client p has no call in flight.
Idle(p) == call[p].phase = "idle"

\* Client p is about to enter a repository method: it has no call in flight,
\* or the use case it runs has come to its repository call.
Ready(p) == call[p].phase \in {"idle", "call"}

InFlight(c) == c.phase # "idle"

\* History: an in-flight UpdateEntry learns what a concurrent UpdateEntry of
\* the same entry returned, and for which date (peer, peerDate), and that a
\* concurrent UpdateEntry of the same entry has committed its delete+put
\* transaction, the two new dates being different from each other and from
\* the date the entry had (raced); an in-flight UpdateTheme learns what a
\* concurrent UpdateTheme of the same theme returned (peer).
Mark(cq, c, res) ==
    LET seen == IF \/ /\ cq.op = "UpdateEntry" /\ InFlight(cq)
                      /\ c.op = "UpdateEntry"
                      /\ cq.userID = c.userID /\ cq.id = c.id
                   \/ /\ cq.op = "UpdateTheme" /\ InFlight(cq)
                      /\ c.op = "UpdateTheme"
                      /\ cq.themeID = c.themeID
                THEN [cq EXCEPT !.peer = res, !.peerDate = c.date]
                ELSE cq
    IN IF /\ cq.op = "UpdateEntry" /\ InFlight(cq)
          /\ c.op = "UpdateEntry" /\ res = "ok" /\ c.oldDate # c.date
          /\ cq.userID = c.userID /\ cq.id = c.id
          /\ cq.date # c.date /\ cq.date # c.oldDate
          /\ (cq.phase = "write" => cq.oldDate # cq.date)
       THEN [seen EXCEPT !.raced = TRUE]
       ELSE seen

\* Client p's call c ends and res goes to the caller.
Finish(p, c, res) ==
    /\ call' = [q \in Clients |-> IF q = p THEN IdleCall ELSE Mark(call[q], c, res)]
    /\ ret' = [c EXCEPT !.phase = "done", !.result = res]

\* Client p's call moves on to its next store call.
Continue(p, c) ==
    /\ call' = [call EXCEPT ![p] = c]
    /\ ret' = IdleCall

\* echo.NewHTTPError(status, api.Error{Message: message})
HTTPError(status, message) == [status |-> status, message |-> message]

\* strings.Contains(err.Error(), "ConditionalCheckFailed"): no message the
\* entry repository makes holds these words, the failed condition of its
\* PutItem being returned as "entry already exists".
MentionsConditionalCheckFailed(err) == err \in {"ConditionalCheckFailed"}

\* UseCase.CreateEntry, 4. Call repository to create entry
createEntryError(err) ==
    IF MentionsConditionalCheckFailed(err)
    THEN HTTPError(409, "Entry potentially already exists")
    ELSE HTTPError(500, "Failed to create entry")

\* updateEntryUseCase.Execute, 5. Call repository to update entry
updateEntryError(err) ==
    IF errorsIs(err, ErrEntryNotFound)
    THEN HTTPError(404, "Entry not found during update attempt")
    ELSE HTTPError(500, "Failed to update entry")

\* UseCase.DeleteEntry and deleteEntryUseCase.Execute, 2. Call repository
\* to delete entry
deleteEntryError(err) ==
    IF errorsIs(err, ErrEntryNotFound)
    THEN HTTPError(404, "Entry not found during delete attempt")
    ELSE HTTPError(500, "Failed to delete entry")

\* UseCase.CreateTheme, 5. Call repository to create theme
createThemeError(err) == HTTPError(500, "Failed to create theme")

\* UseCase.UpdateTheme, 5. Call repository to update theme
updateThemeUseCaseError(err) ==
    IF errorsIs(err, ErrForbidden) \/ errorsIs(err, ErrNotFound)
    THEN HTTPError(404, "Failed to update theme: not found, is default, or not owned by user")
    ELSE HTTPError(500, "Failed to update theme")

\* UseCase.DeleteTheme
deleteThemeUseCaseError(err) ==
    IF errorsIs(err, ErrThemeNotFound)
    THEN HTTPError(404, "Theme not found")
    ELSE IF errorsIs(err, ErrForbidden) \/ errorsIs(err, ErrCannotDeleteDefaultTheme)
    THEN HTTPError(403, "Cannot delete this theme (not owner or is default)")
    ELSE HTTPError(500, "Failed to delete theme")

\* What use case uc makes of the error err of its repository call.
UseCaseError(uc, err) ==
    CASE uc = "UseCase.CreateEntry" -> createEntryError(err)
      [] uc = "updateEntryUseCase.Execute" -> updateEntryError(err)
      [] uc \in {"UseCase.DeleteEntry", "deleteEntryUseCase.Execute"} -> deleteEntryError(err)
      [] uc = "UseCase.CreateTheme" -> createThemeError(err)
      [] uc = "UseCase.UpdateTheme" -> updateThemeUseCaseError(err)
      [] uc = "UseCase.DeleteTheme" -> deleteThemeUseCaseError(err)

\* The use cases that fetch what they have written before they return.
FetchingUseCases ==
    {"UseCase.CreateEntry", "updateEntryUseCase.Execute",
     "UseCase.CreateTheme", "UseCase.UpdateTheme"}

\* A use case returns the HTTP error e.
Fail(p, c, e) ==
    Finish(p, [c EXCEPT !.status = e.status], e.message)

\* Client p's repository call c returns res to its caller: to the caller of
\* the repository, or to the use case that made the call, which returns its
\* HTTP error for an error, goes on to fetch what was written, or returns.
Return(p, c, res) ==
    IF c.uc = "" THEN Finish(p, c, res)
    ELSE IF res # "ok" THEN Fail(p, [c EXCEPT !.repoErr = res], UseCaseError(c.uc, res))
    ELSE IF c.uc \in FetchingUseCases THEN Continue(p, [c EXCEPT !.phase = "fetch"])
    ELSE Finish(p, c, "ok")

\* Client p's call c returns res and the item it read.
ReturnItem(p, c, item) ==
    /\ call' = [call EXCEPT ![p] = IdleCall]
    /\ ret' = [c EXCEPT !.phase = "done", !.result = "ok", !.ret = item]

\* Client p's call c returns the list of items it read.
ReturnItems(p, c, items) ==
    /\ call' = [call EXCEPT ![p] = IdleCall]
    /\ ret' = [c EXCEPT !.phase = "done", !.result = "ok", !.items = items]

\* A store call fails for an infrastructure reason.
Fault == /\ faults < MaxFaults
         /\ faults' = faults + 1

\* The clock read by time.Now() moves on between any two steps.
AdvanceTime ==
    /\ now < MaxTime
    /\ now' = now + 1
    /\ ret' = IdleCall
    /\ UNCHANGED <<table, call, faults, issued>>

(***************************************************************************)
(* Entry repository                                                        *)
(***************************************************************************)
\* attributevalue.MarshalMap stores a uuid.UUID, an array of 16 bytes, as an
\* attribute of type Binary: no field of the stored structs has a marshaler
\* of its own and the encoder is used with its default options.
MarshalUUID == "B"

\* attr = :value in a filter or condition expression: an attribute and an
\* expression value of different types are not equal.
AttributeEquals(attrType, attr, valueType, value) ==
    attrType = valueType /\ attr = value

\* A query of every partition whose filter value has the type of the stored
\* attribute.
QueryAnyPartition(t, userID, entryID) ==
    {it \in t : "GSI1PK" \in DOMAIN it /\ it.EntryID = entryID}

\* The query whose filter value :entryId is bound as Binary, the type of
\* the stored attribute, as ListEntriesByDateRange binds :themeId.
QueryByEntryIDBinary(t, userID, entryID) ==
    {it \in t : /\ "GSI1PK" \in DOMAIN it
                /\ it.GSI1PK = userGSI1PK(userID)
                /\ it.EntryID = entryID}

\* Items of the GSI1 partition of a user that pass the filter
\* EntryID = :entryId, where :entryId is the String entryID.String().
QueryByEntryID(t, userID, entryID) ==
    {it \in t : /\ "GSI1PK" \in DOMAIN it
                /\ it.GSI1PK = userGSI1PK(userID)
                /\ AttributeEquals(MarshalUUID, it.EntryID, "S", entryID)}

\* The index returns items in GSI1SK order; the loop keeps the first match.
FirstByGSI1SK(S) ==
    CHOOSE it \in S : \A o \in S : it.GSI1SK[2] <= o.GSI1SK[2]

EntryItem(userID, entryID, date, themeID, data, createdAt, updatedAt) ==
    [PK |-> userPK(userID), SK |-> entrySK(date, entryID),
     EntryID |-> entryID, ThemeID |-> themeID, UserID |-> userID,
     EntryDate |-> date, Data |-> data,
     CreatedAt |-> createdAt, UpdatedAt |-> updatedAt,
     GSI1PK |-> userPK(userID), GSI1SK |-> entryGSI1SK(date, themeID)]

\* A time.Time is a calendar day and a time of day; Format("2006-01-02")
\* keeps the day and drops the time of day.
Format(t) == t[1]

\* t.After(u) compares instants.
After(t, u) == t[1] > u[1] \/ (t[1] = u[1] /\ t[2] > u[2])

\* The character appended to the upper sort key of the range.
High == "\\uffff"

\* Order of two sort-key strings, given as their parts <<tag, date, rest>>:
\* the first part that differs decides, the dates (YYYY-MM-DD, of one width)
\* by calendar order and what follows the date by its first character, "#"
\* of "#<theme_id>" being below \uffff; a string is after each of its proper
\* prefixes.
SortKeyLE(a, b) ==
    LET n == IF Len(a) <= Len(b) THEN Len(a) ELSE Len(b)
        diffs == {i \in 1..n : a[i] # b[i]}
        i == CHOOSE j \in diffs : \A k \in diffs : j <= k
    IN IF diffs = {} THEN Len(a) <= Len(b)
       ELSE IF i = 2 THEN a[i] < b[i]
       ELSE b[i] = High

\* The upper bound ENTRY_DATE#<end> without the appended \uffff.
UpperKeyExact(endSK) == endSK

\* endSK + "\uffff"
UpperKey(endSK) == endSK \o <<High>>

\* GSI1PK = :pkval AND GSI1SK BETWEEN :startsk AND :endsk, filter
\* ThemeID = :themeId, where :themeId is the Binary themeID[:].
QueryDateRange(t, userID, startDate, endDate, themeID) ==
    LET startSK == entryDateSKPrefix(startDate)
        endSK == entryDateSKPrefix(endDate)
    IN {it \in t : /\ "GSI1PK" \in DOMAIN it
                   /\ it.GSI1PK = userGSI1PK(userID)
                   /\ SortKeyLE(startSK, it.GSI1SK)
                   /\ SortKeyLE(it.GSI1SK, UpperKey(endSK))
                   /\ AttributeEquals(MarshalUUID, it.ThemeID, "B", themeID)}

\* ListEntriesByDateRange without its two argument checks.
ListEntriesUnchecked(p, userID, startDate, endDate, themeID) ==
    /\ Ready(p)
    /\ ReturnItems(p, [IdleCall EXCEPT !.op = "ListEntriesByDateRange",
                            !.userID = userID, !.startDate = startDate,
                            !.endDate = endDate, !.themeID = themeID,
                            !.queried = TRUE],
                   QueryDateRange(table, userID, Format(startDate),
                                  Format(endDate), themeID))
    /\ UNCHANGED <<table, now, faults, issued>>

ListEntriesByDateRange(p, userID, startDate, endDate, themeID) ==
    /\ Ready(p)
    /\ LET c == [IdleCall EXCEPT !.op = "ListEntriesByDateRange",
                     !.userID = userID, !.startDate = startDate,
                     !.endDate = endDate, !.themeID = themeID]
           q == [c EXCEPT !.queried = TRUE]
       IN IF After(startDate, endDate)
          THEN /\ Return(p, c, "start date cannot be after end date")
               /\ UNCHANGED faults
          ELSE IF themeID = Nil
          THEN /\ Return(p, c, "theme ID is required to filter entries")
               /\ UNCHANGED faults
          ELSE \/ /\ ReturnItems(p, q, QueryDateRange(table, userID,
                                         Format(startDate), Format(endDate), themeID))
                  /\ UNCHANGED faults
               \/ /\ Fault
                  /\ Return(p, q, "failed to query entries")
    /\ UNCHANGED <<table, now, issued>>

GetEntryByID(p, userID, entryID) ==
    /\ Ready(p)
    /\ LET c == [IdleCall EXCEPT !.op = "GetEntryByID", !.userID = userID,
                                 !.id = entryID]
           found == QueryByEntryID(table, userID, entryID)
       IN \/ /\ found = {}
             /\ Return(p, c, "entry not found")
             /\ UNCHANGED faults
          \/ /\ found # {}
             /\ ReturnItem(p, c, FirstByGSI1SK(found))
             /\ UNCHANGED faults
          \/ /\ Fault
             /\ Return(p, c, "failed to query entries")
    /\ UNCHANGED <<table, now, issued>>

\* CreateEntry whose PutItem carries no ConditionExpression.
CreateEntryUnconditioned(p, userID, entryID, date, themeID, data) ==
    /\ Ready(p)
    /\ userID # Nil /\ entryID # Nil /\ date # NoDate
    /\ table' = StorePut(table, EntryItem(userID, entryID, date, themeID, data, now, now))
    /\ Return(p, [IdleCall EXCEPT !.op = "CreateEntry", !.userID = userID,
                       !.id = entryID, !.date = date, !.themeID = themeID,
                       !.data = data], "ok")
    /\ UNCHANGED <<now, faults, issued>>

CreateEntry(p, userID, entryID, date, themeID, data) ==
    /\ Ready(p)
    /\ LET gen == entryID = Nil
           ids == IF gen THEN GenIDs \ issued ELSE {entryID}
       IN \E id \in ids :
          LET c == [call[p] EXCEPT !.op = "CreateEntry", !.userID = userID,
                         !.id = id, !.date = date, !.themeID = themeID,
                         !.data = data]
              item == EntryItem(userID, id, date, themeID, data, now, now)
          IN /\ issued' = IF gen THEN issued \cup {id} ELSE issued
             /\ IF userID = Nil
                THEN /\ Return(p, c, "user ID is required to create an entry")
                     /\ UNCHANGED <<table, now, faults>>
                ELSE IF date = NoDate
                THEN /\ Return(p, c, "entry date is required to create an entry")
                     /\ UNCHANGED <<table, now, faults>>
                ELSE /\ UNCHANGED now
                     /\ \/ /\ Exists(table, item.PK, item.SK)
                           /\ Return(p, c, "entry already exists")
                           /\ UNCHANGED <<table, faults>>
                        \/ /\ ~Exists(table, item.PK, item.SK)
                           /\ table' = StorePut(table, item)
                           /\ Return(p, c, "ok")
                           /\ UNCHANGED faults
                        \/ /\ Fault
                           /\ Return(p, c, "failed to create entry")
                           /\ UNCHANGED table

UpdateEntryBegin(p, userID, entryID, date, themeID, data, createdAt) ==
    /\ Ready(p)
    /\ LET c == [call[p] EXCEPT !.op = "UpdateEntry", !.phase = "get",
                     !.userID = userID, !.id = entryID, !.date = date,
                     !.themeID = themeID, !.data = data,
                     !.createdAt = createdAt]
       IN IF entryID = Nil \/ userID = Nil \/ date = NoDate
          THEN Return(p, c, "entry ID, user ID, and entry date are required for update")
          ELSE Continue(p, c)
    /\ UNCHANGED <<table, now, faults, issued>>

\* 1. Get the existing entry to check if the date has changed
UpdateEntryGet(p) ==
    /\ call[p].op = "UpdateEntry" /\ call[p].phase = "get"
    /\ LET c == call[p]
           found == QueryByEntryID(table, c.userID, c.id)
       IN \/ /\ found = {}
             /\ Return(p, c, "entry not found")
             /\ UNCHANGED faults
          \/ /\ found # {}
             /\ Continue(p, [c EXCEPT !.phase = "write",
                                      !.oldDate = FirstByGSI1SK(found).EntryDate])
             /\ UNCHANGED faults
          \/ /\ Fault
             /\ Return(p, c, "failed to query entries")
    /\ UNCHANGED <<table, now, issued>>

\* SET #data = :data, UpdatedAt = :updatedAt, GSI1SK = :gsi1sk, EntryDate = :entryDate
UpdatedItem(it, c, t) ==
    [it EXCEPT !.Data = c.data, !.UpdatedAt = t,
               !.GSI1SK = entryGSI1SK(c.date, c.themeID), !.EntryDate = c.date]

\* Date unchanged: one UpdateItem on the key of the original date.
updateItem(p) ==
    LET c == call[p]
        pk == userPK(c.userID)
        sk == entrySK(c.oldDate, c.id)
    IN /\ UNCHANGED now
       /\ \/ /\ ~Exists(table, pk, sk)
             /\ Return(p, c, "entry not found")
             /\ UNCHANGED <<table, faults>>
          \/ /\ Exists(table, pk, sk)
             /\ table' = {IF it.PK = pk /\ it.SK = sk THEN UpdatedItem(it, c, now)
                          ELSE it : it \in table}
             /\ Return(p, c, "ok")
             /\ UNCHANGED faults
          \/ /\ Fault
             /\ Return(p, c, "failed to update entry item")
             /\ UNCHANGED table

\* CancellationReasons of TransactWriteItems{Delete(old), Put(new)}
CancellationReasons(t, oldPK, oldSK, newItem) ==
    << IF Exists(t, oldPK, oldSK) THEN "None" ELSE "ConditionalCheckFailed",
       IF Exists(t, newItem.PK, newItem.SK) THEN "ConditionalCheckFailed" ELSE "None" >>

\* Date changed: Delete(old key) + Put(new key) in one transaction.
deleteAndPutItemTransaction(p) ==
    LET zero == call[p].createdAt = ZeroTime
        c == IF zero
             THEN [call[p] EXCEPT !.logged = @ \cup {"WARN: CreatedAt is zero"}]
             ELSE call[p]
        created == IF zero THEN now ELSE c.createdAt
        oldPK == userPK(c.userID)
        oldSK == entrySK(c.oldDate, c.id)
        newItem == EntryItem(c.userID, c.id, c.date, c.themeID, c.data, created, now)
        reasons == CancellationReasons(table, oldPK, oldSK, newItem)
    IN /\ UNCHANGED now
       /\ \/ /\ reasons = <<"None", "None">>
             /\ table' = StorePut(StoreDelete(table, oldPK, oldSK), newItem)
             /\ Return(p, c, "ok")
             /\ UNCHANGED faults
          \/ /\ reasons # <<"None", "None">>
             /\ Return(p, [c EXCEPT !.reasons = reasons],
                       "entry update failed due to condition check (original not found or target date conflict)")
             /\ UNCHANGED <<table, faults>>
          \/ /\ Fault
             /\ \/ Return(p, [c EXCEPT !.reasons = <<"None", "None">>],
                          "entry update transaction cancelled")
                \/ Return(p, c, "failed to execute entry update transaction")
             /\ UNCHANGED table

\* 2. Check if EntryDate has changed
UpdateEntryWrite(p) ==
    /\ call[p].op = "UpdateEntry" /\ call[p].phase = "write"
    /\ IF call[p].oldDate = call[p].date
       THEN updateItem(p)
       ELSE deleteAndPutItemTransaction(p)
    /\ UNCHANGED issued

\* The store call an UpdateEntry in flight makes next: its GetEntryByID, or,
\* once that has returned an entry, its write.
UpdateEntryStep(p) ==
    /\ call[p].op = "UpdateEntry"
    /\ \/ UpdateEntryGet(p)
       \/ UpdateEntryWrite(p)

\* DeleteEntry whose DeleteItem carries no ConditionExpression.
DeleteEntryUnconditioned(p, userID, entryID, entryDate) ==
    /\ Ready(p)
    /\ userID # Nil /\ entryID # Nil /\ entryDate # NoDate
    /\ table' = StoreDelete(table, userPK(userID), entrySK(entryDate, entryID))
    /\ Return(p, [IdleCall EXCEPT !.op = "DeleteEntry", !.userID = userID,
                       !.id = entryID, !.date = entryDate], "ok")
    /\ UNCHANGED <<now, faults, issued>>

DeleteEntry(p, userID, entryID, entryDate) ==
    /\ Ready(p)
    /\ LET c == [call[p] EXCEPT !.op = "DeleteEntry", !.userID = userID,
                                 !.id = entryID, !.date = entryDate]
           pk == userPK(userID)
           sk == entrySK(entryDate, entryID)
       IN IF userID = Nil \/ entryID = Nil \/ entryDate = NoDate
          THEN /\ Return(p, c, "user ID, entry ID, and entry date are required for delete")
               /\ UNCHANGED <<table, faults>>
          ELSE \/ /\ ~Exists(table, pk, sk)
                  /\ Return(p, c, "entry not found")
                  /\ UNCHANGED <<table, faults>>
               \/ /\ Exists(table, pk, sk)
                  /\ table' = StoreDelete(table, pk, sk)
                  /\ Return(p, c, "ok")
                  /\ UNCHANGED faults
               \/ /\ Fault
                  /\ Return(p, c, "failed to delete entry")
                  /\ UNCHANGED table
    /\ UNCHANGED <<now, issued>>

(***************************************************************************)
(* Theme repository                                                        *)
(***************************************************************************)
\* Metadata item written by CreateTheme (IsDefault forced to false).
ThemeItem(themeID, name, fields, features, owner, createdAt, updatedAt) ==
    [PK |-> themePK(themeID), SK |-> themeMetadataSK, ThemeID |-> themeID,
     ThemeName |-> name, Fields |-> fields, IsDefault |-> FALSE,
     OwnerUserID |-> owner, SupportedFeatures |-> features,
     CreatedAt |-> createdAt, UpdatedAt |-> updatedAt]

\* A default theme: IsDefault is true and OwnerUserID is omitted (omitempty).
DefaultTheme ==
    [PK |-> themePK("td"), SK |-> themeMetadataSK, ThemeID |-> "td",
     ThemeName |-> "n0", Fields |-> "f0", IsDefault |-> TRUE,
     SupportedFeatures |-> "s0", CreatedAt |-> 1, UpdatedAt |-> 1]

LinkItem(userID, themeID, name, createdAt) ==
    [PK |-> userPK(userID), SK |-> userThemeLinkSK(themeID), UserID |-> userID,
     ThemeID |-> themeID, ThemeName |-> name, CreatedAt |-> createdAt]

MetadataAt(t, themeID) == ItemsAt(t, themePK(themeID), themeMetadataSK)

OwnedBy(it, userID) == "OwnerUserID" \in DOMAIN it /\ it.OwnerUserID = userID

\* GetThemeByID without its access check.
getThemeUnchecked(t, userID, themeID) ==
    LET found == MetadataAt(t, themeID)
    IN IF found = {}
       THEN [err |-> "theme not found", theme |-> NoItem]
       ELSE [err |-> "nil", theme |-> CHOOSE it \in found : TRUE]

\* What GetThemeByID returns when its GetItem succeeds.
getThemeByID(t, userID, themeID) ==
    LET found == MetadataAt(t, themeID)
        th == CHOOSE it \in found : TRUE
    IN IF found = {}
       THEN [err |-> "theme not found", theme |-> NoItem]
       ELSE IF ~th.IsDefault /\ ~OwnedBy(th, userID)
       THEN [err |-> "forbidden", theme |-> NoItem]
       ELSE [err |-> "nil", theme |-> th]

\* History: what the first store call of a theme call found at the theme's key.
Saw(c, t, themeID) ==
    LET found == MetadataAt(t, themeID)
        th == CHOOSE it \in found : TRUE
    IN IF found = {} THEN c
       ELSE [c EXCEPT !.sawDefault = th.IsDefault,
                      !.sawOwner = IF "OwnerUserID" \in DOMAIN th
                                   THEN th.OwnerUserID ELSE Nil]

GetThemeByID(p, userID, themeID) ==
    /\ Ready(p)
    /\ LET c == Saw([IdleCall EXCEPT !.op = "GetThemeByID", !.userID = userID,
                                     !.themeID = themeID], table, themeID)
           r == getThemeByID(table, userID, themeID)
       IN \/ /\ r.err # "nil"
             /\ Return(p, c, r.err)
             /\ UNCHANGED faults
          \/ /\ r.err = "nil"
             /\ ReturnItem(p, c, r.theme)
             /\ UNCHANGED faults
          \/ /\ Fault
             /\ Return(p, c, "failed to get theme metadata")
    /\ UNCHANGED <<table, now, issued>>

\* Scan with the filter SK = :md: the metadata items of all themes.
ScanMetadata(t) == {it \in t : it.SK = themeMetadataSK}

\* A listing read from the caller's user-theme links instead of the metadata.
ListThemesByLinks(p, userID) ==
    /\ Ready(p)
    /\ ReturnItems(p, [IdleCall EXCEPT !.op = "ListThemes", !.userID = userID],
                   {it \in table : \/ it \in ScanMetadata(table) /\ it.IsDefault
                                   \/ /\ it.PK = userPK(userID)
                                      /\ it.SK[1] = "THEME"})
    /\ UNCHANGED <<table, now, faults, issued>>

ListThemes(p, userID) ==
    /\ Ready(p)
    /\ LET c == [IdleCall EXCEPT !.op = "ListThemes", !.userID = userID]
       IN \/ /\ ReturnItems(p, c, {th \in ScanMetadata(table) :
                                      th.IsDefault \/ OwnedBy(th, userID)})
             /\ UNCHANGED faults
          \/ /\ Fault
             /\ Return(p, c, "failed to scan themes")
    /\ UNCHANGED <<table, now, issued>>

\* CreateTheme that ignores the error of the metadata PutItem.
CreateThemeContinueOnError(p, themeID, owner, name, fields, features) ==
    /\ Ready(p)
    /\ owner # Nil /\ themeID # Nil
    /\ LET c == [IdleCall EXCEPT !.op = "CreateTheme", !.phase = "link",
                     !.userID = owner, !.themeID = themeID, !.name = name,
                     !.fields = fields, !.features = features, !.createdAt = now]
       IN \/ /\ table' = StorePut(table, ThemeItem(themeID, name, fields, features,
                                                    owner, now, now))
             /\ Continue(p, c)
             /\ UNCHANGED faults
          \/ /\ Fault
             /\ Continue(p, c)
             /\ UNCHANGED table
    /\ UNCHANGED <<now, issued>>

\* CreateTheme without the check of the owner: a theme without owner is
\* stored, its OwnerUserID omitted (omitempty).
CreateThemeOwnerOptional(p, themeID, owner, name, fields, features) ==
    /\ Ready(p)
    /\ themeID # Nil
    /\ LET c == [IdleCall EXCEPT !.op = "CreateTheme", !.phase = "link",
                     !.userID = owner, !.themeID = themeID, !.name = name,
                     !.fields = fields, !.features = features, !.createdAt = now]
           full == ThemeItem(themeID, name, fields, features, owner, now, now)
           meta == IF owner # Nil THEN full
                   ELSE [a \in DOMAIN full \ {"OwnerUserID"} |-> full[a]]
       IN \/ /\ table' = StorePut(table, meta)
             /\ Continue(p, c)
             /\ UNCHANGED faults
          \/ /\ Fault
             /\ Return(p, [c EXCEPT !.phase = "idle"], "failed to create theme metadata")
             /\ UNCHANGED table
    /\ UNCHANGED <<now, issued>>

\* CreateTheme up to and including the PutItem of the metadata item.
CreateTheme(p, themeID, owner, name, fields, features) ==
    /\ Ready(p)
    /\ LET gen == themeID = Nil
           ids == IF gen THEN GenIDs \ issued ELSE {themeID}
       IN \E id \in ids :
          LET c == [call[p] EXCEPT !.op = "CreateTheme", !.userID = owner,
                         !.themeID = id, !.name = name, !.fields = fields,
                         !.features = features, !.createdAt = now]
              meta == ThemeItem(id, name, fields, features, owner, now, now)
          IN /\ issued' = IF gen THEN issued \cup {id} ELSE issued
             /\ IF owner = Nil
                THEN /\ Return(p, c, "owner user ID is required to create a theme")
                     /\ UNCHANGED <<table, faults>>
                ELSE \/ /\ table' = StorePut(table, meta)
                        /\ Continue(p, [c EXCEPT !.phase = "link"])
                        /\ UNCHANGED faults
                     \/ /\ Fault
                        /\ Return(p, c, "failed to create theme metadata")
                        /\ UNCHANGED table
    /\ UNCHANGED now

\* The PutItem of the user-theme link.
CreateThemeLink(p) ==
    /\ call[p].op = "CreateTheme" /\ call[p].phase = "link"
    /\ LET c == call[p]
       IN \/ /\ table' = StorePut(table, LinkItem(c.userID, c.themeID, c.name,
                                                   c.createdAt))
             /\ Return(p, c, "ok")
             /\ UNCHANGED faults
          \/ /\ Fault
             /\ Continue(p, [c EXCEPT !.phase = "rollback",
                                      !.logged = @ \cup {"WARN: Failed to create user-theme link"}])
             /\ UNCHANGED table
    /\ UNCHANGED <<now, issued>>

\* The link failure returned without the compensating DeleteItem.
CreateThemeNoRollback(p) ==
    /\ call[p].op = "CreateTheme" /\ call[p].phase = "rollback"
    /\ Return(p, call[p], "failed to create user-theme link")
    /\ UNCHANGED <<table, now, faults, issued>>

\* Attempt to roll back metadata creation on link failure.
CreateThemeRollback(p) ==
    /\ call[p].op = "CreateTheme" /\ call[p].phase = "rollback"
    /\ LET c == call[p]
       IN \/ /\ table' = StoreDelete(table, themePK(c.themeID), themeMetadataSK)
             /\ Return(p, c, "failed to create user-theme link")
             /\ UNCHANGED faults
          \/ /\ Fault
             /\ Return(p, [c EXCEPT !.logged = @ \cup {"ERROR: Failed to rollback theme metadata"}],
                       "failed to create user-theme link")
             /\ UNCHANGED table
    /\ UNCHANGED <<now, issued>>

\* The condition reduced to attribute_exists(PK) AND attribute_exists(SK).
UpdateConditionExists(t, themeID, owner) == MetadataAt(t, themeID) # {}

\* Condition: Must exist, not be default, and owned by the user.  :userId is
\* the String theme.OwnerUserID.String().
UpdateCondition(t, themeID, owner) ==
    \E it \in MetadataAt(t, themeID) :
       /\ ~it.IsDefault
       /\ "OwnerUserID" \in DOMAIN it
       /\ AttributeEquals(MarshalUUID, it.OwnerUserID, "S", owner)

\* SET ThemeName = :name, Fields = :fields, UpdatedAt = :updatedAt, SupportedFeatures = :features
UpdatedTheme(it, c, t) ==
    [it EXCEPT !.ThemeName = c.name, !.Fields = c.fields, !.UpdatedAt = t,
               !.SupportedFeatures = c.features]

\* UpdateTheme up to and including the conditional UpdateItem of the metadata.
UpdateTheme(p, themeID, owner, name, fields, features) ==
    /\ Ready(p)
    /\ LET c == Saw([call[p] EXCEPT !.op = "UpdateTheme", !.userID = owner,
                         !.themeID = themeID, !.name = name, !.fields = fields,
                         !.features = features], table, themeID)
           pk == themePK(themeID)
           sk == themeMetadataSK
       IN IF themeID = Nil \/ owner = Nil
          THEN /\ Return(p, c, "theme ID and owner user ID are required for update")
               /\ UNCHANGED <<table, faults>>
          ELSE \/ /\ UpdateCondition(table, themeID, owner)
                  /\ table' = {IF it.PK = pk /\ it.SK = sk
                               THEN UpdatedTheme(it, c, now) ELSE it : it \in table}
                  /\ Continue(p, [c EXCEPT !.phase = "link"])
                  /\ UNCHANGED faults
               \/ /\ ~UpdateCondition(table, themeID, owner)
                  /\ Continue(p, [c EXCEPT !.phase = "check"])
                  /\ UNCHANGED <<table, faults>>
               \/ /\ Fault
                  /\ Return(p, c, "failed to update theme metadata")
                  /\ UNCHANGED table
    /\ UNCHANGED <<now, issued>>

\* What UpdateTheme returns after the ConditionalCheckFailedException, given
\* the error of its follow-up GetThemeByID.
updateThemeError(getErr) ==
    IF getErr = "nil"
    THEN "failed to update theme metadata due to condition check failure, but ownership/existence check passed"
    ELSE IF errorsIs(getErr, ErrNotFound) THEN ErrNotFound
    ELSE IF errorsIs(getErr, ErrForbidden) THEN ErrForbidden
    ELSE "failed to update theme metadata (and failed to check existence/ownership)"

\* The follow-up GetThemeByID after a failed condition check.  The error
\* returned is a sentinel, or a message wrapping (%w) the error of the
\* UpdateItem, the ConditionalCheckFailedException; the error of the
\* GetThemeByID decides which and is not part of what is returned.
UpdateThemeCheck(p) ==
    /\ call[p].op = "UpdateTheme" /\ call[p].phase = "check"
    /\ LET c == call[p]
           r == getThemeByID(table, c.userID, c.themeID)
           failed == "failed to get theme metadata"
           returned(getErr) ==
              [c EXCEPT !.cause = IF updateThemeError(getErr) \in {ErrNotFound, ErrForbidden}
                                  THEN "-"
                                  ELSE "ConditionalCheckFailedException"]
       IN \/ /\ Return(p, returned(r.err), updateThemeError(r.err))
             /\ UNCHANGED faults
          \/ /\ Fault
             /\ Return(p, returned(failed), updateThemeError(failed))
    /\ UNCHANGED <<table, now, issued>>

\* Update ThemeName in the UserThemeLink item as well for consistency
UpdateThemeLink(p) ==
    /\ call[p].op = "UpdateTheme" /\ call[p].phase = "link"
    /\ LET c == call[p]
           pk == userPK(c.userID)
           sk == userThemeLinkSK(c.themeID)
           warned == [c EXCEPT !.logged = @ \cup
                         {"WARN: Failed to update ThemeName in UserThemeLink"}]
       IN \/ /\ Exists(table, pk, sk)
             /\ table' = {IF it.PK = pk /\ it.SK = sk
                          THEN [it EXCEPT !.ThemeName = c.name] ELSE it : it \in table}
             /\ Return(p, c, "ok")
             /\ UNCHANGED faults
          \/ /\ ~Exists(table, pk, sk)
             /\ Return(p, warned, "ok")
             /\ UNCHANGED <<table, faults>>
          \/ /\ Fault
             /\ Return(p, warned, "ok")
             /\ UNCHANGED table
    /\ UNCHANGED <<now, issued>>

\* The store call an UpdateTheme makes after its conditional UpdateItem: the
\* GetThemeByID that follows a failed condition, or the update of the link
\* that follows a successful one.
UpdateThemeStep(p) ==
    /\ call[p].op = "UpdateTheme"
    /\ \/ UpdateThemeCheck(p)
       \/ UpdateThemeLink(p)

\* What DeleteTheme returns when its GetThemeByID fails with getErr.
deleteThemeError(getErr) ==
    IF errorsIs(getErr, ErrNotFound) THEN ErrNotFound
    ELSE IF errorsIs(getErr, ErrForbidden) THEN ErrForbidden
    ELSE "failed to get theme for deletion check"

\* DeleteTheme up to and including its GetThemeByID.
DeleteTheme(p, userID, themeID) ==
    /\ Ready(p)
    /\ LET c == Saw([call[p] EXCEPT !.op = "DeleteTheme", !.userID = userID,
                                     !.themeID = themeID], table, themeID)
           r == getThemeByID(table, userID, themeID)
       IN IF userID = Nil \/ themeID = Nil
          THEN /\ Return(p, c, "user ID and theme ID are required for delete")
               /\ UNCHANGED faults
          ELSE \/ /\ r.err # "nil"
                  /\ Return(p, [c EXCEPT !.cause = r.err], deleteThemeError(r.err))
                  /\ UNCHANGED faults
               \/ /\ r.err = "nil" /\ r.theme.IsDefault
                  /\ Return(p, c, "cannot delete default theme")
                  /\ UNCHANGED faults
               \/ /\ r.err = "nil" /\ ~r.theme.IsDefault
                  /\ Continue(p, [c EXCEPT !.phase = "meta"])
                  /\ UNCHANGED faults
               \/ /\ Fault
                  /\ Return(p, [c EXCEPT !.cause = "failed to get theme metadata"],
                            deleteThemeError("failed to get theme metadata"))
    /\ UNCHANGED <<table, now, issued>>

\* 2. Delete metadata item
DeleteThemeMeta(p) ==
    /\ call[p].op = "DeleteTheme" /\ call[p].phase = "meta"
    /\ LET c == call[p]
       IN \/ /\ table' = StoreDelete(table, themePK(c.themeID), themeMetadataSK)
             /\ Continue(p, [c EXCEPT !.phase = "link"])
             /\ UNCHANGED faults
          \/ /\ Fault
             /\ Return(p, c, "failed to delete theme metadata")
             /\ UNCHANGED table
    /\ UNCHANGED <<now, issued>>

\* The link delete whose failure is returned to the caller.
DeleteThemeLinkEscalated(p) ==
    /\ call[p].op = "DeleteTheme" /\ call[p].phase = "link"
    /\ LET c == call[p]
       IN \/ /\ table' = StoreDelete(table, userPK(c.userID), userThemeLinkSK(c.themeID))
             /\ Return(p, c, "ok")
             /\ UNCHANGED faults
          \/ /\ Fault
             /\ Return(p, c, "failed to delete user-theme link")
             /\ UNCHANGED table
    /\ UNCHANGED <<now, issued>>

\* 3. Delete user link item
DeleteThemeLink(p) ==
    /\ call[p].op = "DeleteTheme" /\ call[p].phase = "link"
    /\ LET c == call[p]
       IN \/ /\ table' = StoreDelete(table, userPK(c.userID), userThemeLinkSK(c.themeID))
             /\ Return(p, c, "ok")
             /\ UNCHANGED faults
          \/ /\ Fault
             /\ Return(p, [c EXCEPT !.logged = @ \cup {"WARN: Failed to delete user-theme link"}],
                       "ok")
             /\ UNCHANGED table
    /\ UNCHANGED <<now, issued>>

(***************************************************************************)
(* Use cases.  A use case validates its input, makes its repository calls  *)
(* one after the other and maps their errors to HTTP errors.  Each store   *)
(* call of a repository method is a step of its own, so a use case is no   *)
(* more atomic than the store calls it is made of.  A field name is the    *)
(* sequence of its characters, a theme's Fields the sequence of its field  *)
(* definitions, an entry's Data a map from field names to values.          *)
(***************************************************************************)
FieldTypeText == "text"

FieldTypeDate == "date"

FieldTypeDateTime == "datetime"

FieldTypeNumber == "number"

FieldTypeBoolean == "boolean"

FieldTypeTextarea == "textarea"

FieldTypeSelect == "select"

ThemeField(name, label, type, required) ==
    [Name |-> name, Label |-> label, Type |-> type, Required |-> required]

LowerCase ==
    {"a", "b", "c", "d", "e", "f", "g", "h", "i", "j", "k", "l", "m",
     "n", "o", "p", "q", "r", "s", "t", "u", "v", "w", "x", "y", "z"}

Digits == {"0", "1", "2", "3", "4", "5", "6", "7", "8", "9"}

\* regexp.MustCompile(`^[a-z_][a-z0-9_]*$`).MatchString(name)
validFieldNameRegex(name) ==
    /\ Len(name) >= 1
    /\ name[1] \in LowerCase \cup {"_"}
    /\ \A i \in 2..Len(name) : name[i] \in LowerCase \cup Digits \cup {"_"}

IsValidFieldName(name) ==
    IF name = <<>> THEN FALSE ELSE validFieldNameRegex(name)

validTypes ==
    {FieldTypeText, FieldTypeDate, FieldTypeDateTime, FieldTypeNumber,
     FieldTypeBoolean, FieldTypeTextarea, FieldTypeSelect}

\* The error of the field at position i (the loop's index is i - 1), the
\* fields before it having passed.
FieldError(fields, i) ==
    LET field == fields[i]
    IN IF field.Name = <<>>
       THEN Error("field %d: name is required", i - 1, <<>>, "")
       ELSE IF ~IsValidFieldName(field.Name)
       THEN Error("field %d ('%s'): name contains invalid characters (allowed: a-z, 0-9, _ starting with letter or _)",
                  i - 1, field.Name, "")
       ELSE IF field.Label = ""
       THEN Error("field %d ('%s'): label is required", i - 1, field.Name, "")
       ELSE IF \E j \in 1..(i - 1) : fields[j].Name = field.Name
       THEN Error("field name '%s' is duplicated", -1, field.Name, "")
       ELSE IF field.Type \notin validTypes
       THEN Error("field '%s': invalid type '%s'", -1, field.Name, field.Type)
       ELSE NoError

ValidateThemeFields(fields) ==
    LET bad == {i \in 1..Len(fields) : FieldError(fields, i) # NoError}
    IN IF Len(fields) = 0
       THEN Error("theme must have at least one field", -1, <<>>, "")
       ELSE IF bad = {} THEN NoError
       ELSE FieldError(fields, CHOOSE i \in bad : \A j \in bad : i <= j)

validFeatures == {"monthly_summary", "category_aggregation", "SumAll"}

\* The error of the feature at position i, those before it having passed.
FeatureError(features, i) ==
    IF features[i] = ""
    THEN Error("feature %d: name cannot be empty", i - 1, <<>>, "")
    ELSE IF \E j \in 1..(i - 1) : features[j] = features[i]
    THEN Error("feature name '%s' is duplicated", -1, <<>>, features[i])
    ELSE NoError

\* Allow empty or nil features list
ValidateSupportedFeatures(features) ==
    LET bad == {i \in 1..Len(features) : FeatureError(features, i) # NoError}
    IN IF Len(features) = 0 \/ bad = {} THEN NoError
       ELSE FeatureError(features, CHOOSE i \in bad : \A j \in bad : i <= j)

\* What ValidateSupportedFeatures logs: a feature that is not a known one is
\* reported and accepted.
FeatureWarnings(features) ==
    LET empty == {i \in 1..Len(features) : features[i] = ""}
        bad == {i \in 1..Len(features) : FeatureError(features, i) # NoError}
        last == IF bad = {} THEN Len(features)
                ELSE CHOOSE i \in bad : \A j \in bad : i <= j
    IN IF \E i \in 1..last : i \notin empty /\ features[i] \notin validFeatures
       THEN {"WARN: Potentially unsupported feature"}
       ELSE {}

\* fmt.Errorf(prefix + ": %w", err)
Wrap(prefix, err) == [err EXCEPT !.wrap = prefix]

\* Theme.Validate
Validate(name, fields, features) ==
    IF name = "" THEN Error("theme name is required", -1, <<>>, "")
    ELSE IF ValidateThemeFields(fields) # NoError
    THEN Wrap("invalid theme fields", ValidateThemeFields(fields))
    ELSE IF ValidateSupportedFeatures(features) # NoError
    THEN Wrap("invalid supported features", ValidateSupportedFeatures(features))
    ELSE NoError

\* What Theme.Validate has logged when it returns.
ValidateWarnings(name, fields, features) ==
    IF name # "" /\ ValidateThemeFields(fields) = NoError
    THEN FeatureWarnings(features)
    ELSE {}

\* The values of an entry's Data, each with the Go type it is decoded to.
Null == [goType |-> "nil", v |-> ""]

String(s) == [goType |-> "string", v |-> s]

Number(n) == [goType |-> "float64", v |-> n]

Boolean(b) == [goType |-> "bool", v |-> b]

\* The strings time.Parse accepts for the layout "2006-01-02", among the
\* strings of DataValues.
DateStrings == {"2024-02-29"}

\* The strings time.Parse accepts for time.RFC3339, among those strings.
DateTimeStrings == {"2024-02-29T10:00:00Z"}

StringTypes == {FieldTypeText, FieldTypeTextarea, FieldTypeSelect}

\* definedFields[key]: the last of the fields named key.
DefinedField(fields, key) ==
    LET at == {i \in 1..Len(fields) : fields[i].Name = key}
    IN fields[CHOOSE i \in at : \A j \in at : j <= i]

\* Check required fields are present and not empty
RequiredError(data, field) ==
    IF ~field.Required THEN NoError
    ELSE IF field.Name \notin DOMAIN data
    THEN Error("required field '%s' is missing", -1, field.Name, "")
    ELSE IF data[field.Name] = Null
    THEN Error("required field '%s' cannot be null", -1, field.Name, "")
    ELSE IF /\ field.Type \in StringTypes
            /\ (data[field.Name].goType # "string" \/ data[field.Name].v = "")
    THEN Error("required field '%s' cannot be empty", -1, field.Name, "")
    ELSE NoError

\* Check types of provided data and presence of undefined fields
TypeError(data, fields, key) ==
    LET value == data[key]
        fieldDef == DefinedField(fields, key)
    IN IF \A i \in 1..Len(fields) : fields[i].Name # key
       THEN Error("field '%s' is not defined in the theme", -1, key, "")
       ELSE IF value = Null THEN NoError
       ELSE IF fieldDef.Type \in StringTypes
       THEN IF value.goType # "string"
            THEN Error("field '%s' expects a string, got %T", -1, key, value.goType)
            ELSE NoError
       ELSE IF fieldDef.Type = FieldTypeNumber
       THEN IF value.goType \notin {"float64", "int", "int32", "int64"}
            THEN Error("field '%s' expects a number, got %T", -1, key, value.goType)
            ELSE NoError
       ELSE IF fieldDef.Type = FieldTypeBoolean
       THEN IF value.goType # "bool"
            THEN Error("field '%s' expects a boolean, got %T", -1, key, value.goType)
            ELSE NoError
       ELSE IF fieldDef.Type = FieldTypeDate
       THEN IF value.goType # "string"
            THEN Error("field '%s' expects a date string (YYYY-MM-DD), got %T", -1, key, value.goType)
            ELSE IF value.v \notin DateStrings
            THEN Error("field '%s' has invalid date format: %v. Expected YYYY-MM-DD", -1, key, "")
            ELSE NoError
       ELSE IF fieldDef.Type = FieldTypeDateTime
       THEN IF value.goType # "string"
            THEN Error("field '%s' expects a datetime string (RFC3339), got %T", -1, key, value.goType)
            ELSE IF value.v \notin DateTimeStrings
            THEN Error("field '%s' has invalid datetime format: %v. Expected RFC3339", -1, key, "")
            ELSE NoError
       ELSE Error("internal error: unknown field type '%s' for field '%s'", -1, key, fieldDef.Type)

\* The errors ValidateEntryDataAgainstTheme may return, NoError alone when
\* the data pass: the required fields are checked in the order of the
\* theme's fields, the keys of data in the order of a Go map iteration,
\* which is any order.
ValidateEntryDataAgainstTheme(data, fields) ==
    LET missing == {i \in 1..Len(fields) : RequiredError(data, fields[i]) # NoError}
        wrong == {key \in DOMAIN data : TypeError(data, fields, key) # NoError}
    IN IF missing # {}
       THEN {RequiredError(data, fields[CHOOSE i \in missing : \A j \in missing : i <= j])}
       ELSE IF wrong # {}
       THEN {TypeError(data, fields, key) : key \in wrong}
       ELSE {NoError}

\* UseCase.CreateEntry and updateEntryUseCase.Execute: the error of the
\* GetThemeByID of the entry's theme.
validateThemeError(err, notFound) ==
    IF errorsIs(err, ErrThemeNotFound) \/ errorsIs(err, ErrForbidden)
    THEN HTTPError(404, notFound)
    ELSE HTTPError(500, IF notFound = "Theme not found or access denied"
                        THEN "Failed to validate theme"
                        ELSE "Failed to validate associated theme")

\* The error of the GetEntryByID a use case starts with.
getEntryError(err, internal) ==
    IF errorsIs(err, ErrEntryNotFound)
    THEN HTTPError(404, "Entry not found")
    ELSE HTTPError(500, internal)

\* UseCase.UpdateTheme, 3. Check if theme exists, is owned by user, and is
\* not default before attempting update
getThemeBeforeUpdateError(err) ==
    IF errorsIs(err, ErrNotFound) \/ errorsIs(err, ErrForbidden)
    THEN HTTPError(404, "Theme not found or access denied")
    ELSE HTTPError(500, "Failed to retrieve theme before update")

\* The identifiers uuid.New() may return.
NewIDs(id) == IF id = Nil THEN GenIDs \ issued ELSE {id}

\* UseCase.CreateEntry up to its repository call: 1. Validate theme exists
\* and user has access, 2. Validate data against theme fields, 3. Ensure
\* EntryID is set.
UseCaseCreateEntry(p, userID, entryID, date, themeID, data) ==
    /\ Idle(p)
    /\ LET c == [IdleCall EXCEPT !.uc = "UseCase.CreateEntry",
                     !.op = "GetThemeByID", !.phase = "call",
                     !.userID = userID, !.id = entryID, !.date = date,
                     !.themeID = themeID, !.data = data]
           r == getThemeByID(table, userID, themeID)
           failed == "failed to get theme metadata"
       IN \/ /\ r.err # "nil"
             /\ Fail(p, [c EXCEPT !.repoErr = r.err],
                     validateThemeError(r.err, "Theme not found or access denied"))
             /\ UNCHANGED <<faults, issued>>
          \/ /\ r.err = "nil"
             /\ \E err \in ValidateEntryDataAgainstTheme(data, r.theme.Fields) :
                   IF err # NoError
                   THEN /\ Fail(p, [c EXCEPT !.detail = err],
                                HTTPError(400, "Entry data validation failed: %v"))
                        /\ UNCHANGED issued
                   ELSE \E id \in NewIDs(entryID) :
                           /\ Continue(p, [c EXCEPT !.id = id])
                           /\ issued' = issued \cup ({id} \ {entryID})
             /\ UNCHANGED faults
          \/ /\ Fault
             /\ Fail(p, [c EXCEPT !.repoErr = failed],
                     validateThemeError(failed, "Theme not found or access denied"))
             /\ UNCHANGED issued
    /\ UNCHANGED <<table, now>>

\* 4. Call repository to create entry
UseCaseCreateEntryCall(p) ==
    /\ call[p].uc = "UseCase.CreateEntry" /\ call[p].phase = "call"
    /\ CreateEntry(p, call[p].userID, call[p].id, call[p].date,
                   call[p].themeID, call[p].data)

\* 5. Fetch the created entry to return the full object with timestamps; on
\* an error of the fetch the entry handed to the repository is returned with
\* approximated timestamps.
UseCaseCreateEntryFetch(p) ==
    /\ call[p].uc = "UseCase.CreateEntry" /\ call[p].phase = "fetch"
    /\ LET c == call[p]
           found == QueryByEntryID(table, c.userID, c.id)
           warned == [c EXCEPT !.logged = @ \cup {"WARN: Failed to fetch newly created entry"},
                               !.ret = EntryItem(c.userID, c.id, c.date, c.themeID,
                                                 c.data, now, now)]
       IN \/ /\ found # {}
             /\ Finish(p, [c EXCEPT !.ret = FirstByGSI1SK(found)], "ok")
             /\ UNCHANGED faults
          \/ /\ found = {}
             /\ Finish(p, [warned EXCEPT !.repoErr = "entry not found"], "ok")
             /\ UNCHANGED faults
          \/ /\ Fault
             /\ Finish(p, [warned EXCEPT !.repoErr = "failed to query entries"], "ok")
    /\ UNCHANGED <<table, now, issued>>

\* updateEntryUseCase.Execute: 1. Get existing entry to find ThemeID and
\* validate ownership/existence.  date is req.EntryDate.Format("2006-01-02").
updateEntryUseCaseExecute(p, userID, entryID, date, data) ==
    /\ Idle(p)
    /\ LET c == [IdleCall EXCEPT !.uc = "updateEntryUseCase.Execute",
                     !.op = "GetEntryByID", !.phase = "theme",
                     !.userID = userID, !.id = entryID, !.date = date,
                     !.data = data]
           found == QueryByEntryID(table, userID, entryID)
           failed == "failed to query entries"
       IN \/ /\ found = {}
             /\ Fail(p, [c EXCEPT !.repoErr = "entry not found"],
                     getEntryError("entry not found", "Failed to retrieve existing entry"))
             /\ UNCHANGED faults
          \/ /\ found # {}
             /\ Continue(p, [c EXCEPT !.ret = FirstByGSI1SK(found),
                                      !.themeID = FirstByGSI1SK(found).ThemeID])
             /\ UNCHANGED faults
          \/ /\ Fault
             /\ Fail(p, [c EXCEPT !.repoErr = failed],
                     getEntryError(failed, "Failed to retrieve existing entry"))
    /\ UNCHANGED <<table, now, issued>>

\* 2. Get the theme associated with the existing entry, 3. Validate the new
\* data against the theme fields, 4. Prepare the updated entry (ThemeID
\* cannot be changed, CreatedAt is not set).
updateEntryUseCaseTheme(p) ==
    /\ call[p].uc = "updateEntryUseCase.Execute" /\ call[p].phase = "theme"
    /\ LET c == [call[p] EXCEPT !.op = "GetThemeByID"]
           r == getThemeByID(table, c.userID, c.themeID)
           failed == "failed to get theme metadata"
           logged == [c EXCEPT !.logged = @ \cup
                         {"ERROR: Entry references non-existent/inaccessible theme"}]
       IN \/ /\ r.err # "nil"
             /\ Fail(p, [logged EXCEPT !.repoErr = r.err],
                     validateThemeError(r.err, "Associated theme not found or access denied"))
             /\ UNCHANGED faults
          \/ /\ r.err = "nil"
             /\ \E err \in ValidateEntryDataAgainstTheme(c.data, r.theme.Fields) :
                   IF err # NoError
                   THEN Fail(p, [c EXCEPT !.detail = err],
                             HTTPError(400, "Entry data validation failed: %v"))
                   ELSE Continue(p, [c EXCEPT !.phase = "call"])
             /\ UNCHANGED faults
          \/ /\ Fault
             /\ Fail(p, [logged EXCEPT !.repoErr = failed],
                     validateThemeError(failed, "Associated theme not found or access denied"))
    /\ UNCHANGED <<table, now, issued>>

\* 5. Call repository to update entry
updateEntryUseCaseCall(p) ==
    /\ call[p].uc = "updateEntryUseCase.Execute" /\ call[p].phase = "call"
    /\ UpdateEntryBegin(p, call[p].userID, call[p].id, call[p].date,
                        call[p].themeID, call[p].data, ZeroTime)

\* 6. Fetch the updated entry to return the full object; on an error of the
\* fetch the entry sent for update is returned, with the creation time of
\* the entry read in step 1 and an approximated update time.
updateEntryUseCaseFetch(p) ==
    /\ call[p].uc = "updateEntryUseCase.Execute" /\ call[p].phase = "fetch"
    /\ LET c == call[p]
           found == QueryByEntryID(table, c.userID, c.id)
           warned == [c EXCEPT !.logged = @ \cup {"WARN: Failed to fetch updated entry"},
                               !.ret = EntryItem(c.userID, c.id, c.date, c.themeID,
                                                 c.data, c.ret.CreatedAt, now)]
       IN \/ /\ found # {}
             /\ Finish(p, [c EXCEPT !.ret = FirstByGSI1SK(found)], "ok")
             /\ UNCHANGED faults
          \/ /\ found = {}
             /\ Finish(p, [warned EXCEPT !.repoErr = "entry not found"], "ok")
             /\ UNCHANGED faults
          \/ /\ Fault
             /\ Finish(p, [warned EXCEPT !.repoErr = "failed to query entries"], "ok")
    /\ UNCHANGED <<table, now, issued>>

\* The two use cases that delete an entry, deleteEntryUseCase.Execute and
\* UseCase.DeleteEntry, are one text: Need EntryDate to delete.  Get the
\* entry first.
DeleteEntryGet(p, uc, userID, entryID) ==
    LET c == [IdleCall EXCEPT !.uc = uc, !.op = "GetEntryByID",
                  !.phase = "call", !.userID = userID, !.id = entryID]
        found == QueryByEntryID(table, userID, entryID)
        failed == "failed to query entries"
    IN \/ /\ found = {}
          /\ Fail(p, [c EXCEPT !.repoErr = "entry not found"],
                  getEntryError("entry not found", "Failed to retrieve entry before delete"))
          /\ UNCHANGED faults
       \/ /\ found # {}
          /\ Continue(p, [c EXCEPT !.ret = FirstByGSI1SK(found),
                                   !.date = FirstByGSI1SK(found).EntryDate])
          /\ UNCHANGED faults
       \/ /\ Fault
          /\ Fail(p, [c EXCEPT !.repoErr = failed],
                  getEntryError(failed, "Failed to retrieve entry before delete"))

deleteEntryUseCaseExecute(p, userID, entryID) ==
    /\ Idle(p)
    /\ DeleteEntryGet(p, "deleteEntryUseCase.Execute", userID, entryID)
    /\ UNCHANGED <<table, now, issued>>

\* Now delete using the retrieved date
deleteEntryUseCaseCall(p) ==
    /\ call[p].uc = "deleteEntryUseCase.Execute" /\ call[p].phase = "call"
    /\ DeleteEntry(p, call[p].userID, call[p].id, call[p].date)

UseCaseDeleteEntry(p, userID, entryID) ==
    /\ Idle(p)
    /\ DeleteEntryGet(p, "UseCase.DeleteEntry", userID, entryID)
    /\ UNCHANGED <<table, now, issued>>

\* Now delete using the retrieved date
UseCaseDeleteEntryCall(p) ==
    /\ call[p].uc = "UseCase.DeleteEntry" /\ call[p].phase = "call"
    /\ DeleteEntry(p, call[p].userID, call[p].id, call[p].date)

\* UseCase.CreateTheme up to its repository call: 1. Validate the domain
\* theme object itself, 2. Ensure OwnerUserID is set, 3. Ensure ThemeID is
\* set.
UseCaseCreateTheme(p, themeID, owner, name, fields, features) ==
    /\ Idle(p)
    /\ LET c == [IdleCall EXCEPT !.uc = "UseCase.CreateTheme",
                     !.op = "CreateTheme", !.phase = "call",
                     !.userID = owner, !.themeID = themeID, !.name = name,
                     !.fields = fields, !.features = features,
                     !.logged = ValidateWarnings(name, fields, features)]
           err == Validate(name, fields, features)
       IN IF err # NoError
          THEN /\ Fail(p, [c EXCEPT !.detail = err],
                       HTTPError(400, "Theme validation failed: %v"))
               /\ UNCHANGED issued
          ELSE IF owner = Nil
          THEN /\ Fail(p, [c EXCEPT !.logged = @ \cup {"ERROR: CreateTheme called with nil or zero OwnerUserID"}],
                       HTTPError(500, "Internal error: User ID missing for theme creation"))
               /\ UNCHANGED issued
          ELSE \E id \in NewIDs(themeID) :
                  /\ Continue(p, [c EXCEPT !.themeID = id])
                  /\ issued' = issued \cup ({id} \ {themeID})
    /\ UNCHANGED <<table, now, faults>>

\* 5. Call repository to create theme
UseCaseCreateThemeCall(p) ==
    /\ call[p].uc = "UseCase.CreateTheme" /\ call[p].phase = "call"
    /\ CreateTheme(p, call[p].themeID, call[p].userID, call[p].name,
                   call[p].fields, call[p].features)

\* 6. Fetch the created theme to return the full object with timestamps; on
\* an error of the fetch the theme of the request is returned with
\* approximated timestamps: its PK and SK are empty, the repository having
\* set them on its copy of the theme only.
UseCaseCreateThemeFetch(p) ==
    /\ call[p].uc = "UseCase.CreateTheme" /\ call[p].phase = "fetch"
    /\ LET c == call[p]
           r == getThemeByID(table, c.userID, c.themeID)
           failed == "failed to get theme metadata"
           input == [ThemeItem(c.themeID, c.name, c.fields, c.features,
                               c.userID, now, now)
                        EXCEPT !.PK = <<>>, !.SK = <<>>]
           warned == [c EXCEPT !.logged = @ \cup {"WARN: Failed to fetch newly created theme"},
                               !.ret = input]
       IN \/ /\ r.err = "nil"
             /\ Finish(p, [c EXCEPT !.ret = r.theme], "ok")
             /\ UNCHANGED faults
          \/ /\ r.err # "nil"
             /\ Finish(p, [warned EXCEPT !.repoErr = r.err], "ok")
             /\ UNCHANGED faults
          \/ /\ Fault
             /\ Finish(p, [warned EXCEPT !.repoErr = failed], "ok")
    /\ UNCHANGED <<table, now, issued>>

\* UseCase.UpdateTheme up to its repository call: 1. Basic ID checks,
\* 2. Validate the incoming domain theme object itself, 3. Check if theme
\* exists, is owned by user, and is not default, 4. Prepare the theme object
\* for the repository update.  bodyID and owner are the ThemeID and the
\* OwnerUserID of updatedThemeData.
UseCaseUpdateTheme(p, userID, themeID, bodyID, owner, name, fields, features) ==
    /\ Idle(p)
    /\ LET c == [IdleCall EXCEPT !.uc = "UseCase.UpdateTheme",
                     !.op = "GetThemeByID", !.phase = "call",
                     !.userID = userID, !.themeID = themeID, !.name = name,
                     !.fields = fields, !.features = features]
           v == [c EXCEPT !.logged = ValidateWarnings(name, fields, features)]
           err == Validate(name, fields, features)
           r == getThemeByID(table, userID, themeID)
           failed == "failed to get theme metadata"
       IN IF themeID = Nil \/ userID = Nil
          THEN /\ Fail(p, c, HTTPError(400, "Invalid theme ID or user ID"))
               /\ UNCHANGED faults
          ELSE IF themeID # bodyID
          THEN /\ Fail(p, c, HTTPError(400, "Theme ID mismatch between path and request body"))
               /\ UNCHANGED faults
          ELSE IF owner = Nil \/ owner # userID
          THEN /\ Fail(p, c, HTTPError(400, "Owner user ID mismatch"))
               /\ UNCHANGED faults
          ELSE IF err # NoError
          THEN /\ Fail(p, [v EXCEPT !.detail = err],
                       HTTPError(400, "Theme data validation failed: %v"))
               /\ UNCHANGED faults
          ELSE \/ /\ r.err # "nil"
                  /\ Fail(p, [v EXCEPT !.repoErr = r.err], getThemeBeforeUpdateError(r.err))
                  /\ UNCHANGED faults
               \/ /\ r.err = "nil" /\ r.theme.IsDefault
                  /\ Fail(p, v, HTTPError(403, "Cannot modify a default theme"))
                  /\ UNCHANGED faults
               \/ /\ r.err = "nil" /\ ~r.theme.IsDefault
                  /\ Continue(p, [v EXCEPT !.createdAt = r.theme.CreatedAt])
                  /\ UNCHANGED faults
               \/ /\ Fault
                  /\ Fail(p, [v EXCEPT !.repoErr = failed], getThemeBeforeUpdateError(failed))
    /\ UNCHANGED <<table, now, issued>>

\* 5. Call repository to update theme
UseCaseUpdateThemeCall(p) ==
    /\ call[p].uc = "UseCase.UpdateTheme" /\ call[p].phase = "call"
    /\ UpdateTheme(p, call[p].themeID, call[p].userID, call[p].name,
                   call[p].fields, call[p].features)

\* 6. Fetch the updated theme to return the full object with updated
\* timestamp
UseCaseUpdateThemeFetch(p) ==
    /\ call[p].uc = "UseCase.UpdateTheme" /\ call[p].phase = "fetch"
    /\ LET c == call[p]
           r == getThemeByID(table, c.userID, c.themeID)
           failed == "failed to get theme metadata"
           input == [ThemeItem(c.themeID, c.name, c.fields, c.features,
                               c.userID, c.createdAt, now)
                        EXCEPT !.PK = <<>>, !.SK = <<>>]
           warned == [c EXCEPT !.logged = @ \cup {"WARN: Failed to fetch updated theme"},
                               !.ret = input]
       IN \/ /\ r.err = "nil"
             /\ Finish(p, [c EXCEPT !.ret = r.theme], "ok")
             /\ UNCHANGED faults
          \/ /\ r.err # "nil"
             /\ Finish(p, [warned EXCEPT !.repoErr = r.err], "ok")
             /\ UNCHANGED faults
          \/ /\ Fault
             /\ Finish(p, [warned EXCEPT !.repoErr = failed], "ok")
    /\ UNCHANGED <<table, now, issued>>

\* UseCase.DeleteTheme is called: it has no step of its own before its
\* repository call.
UseCaseDeleteTheme(p, userID, themeID) ==
    /\ Idle(p)
    /\ Continue(p, [IdleCall EXCEPT !.uc = "UseCase.DeleteTheme",
                        !.op = "DeleteTheme", !.phase = "call",
                        !.userID = userID, !.themeID = themeID])
    /\ UNCHANGED <<table, now, faults, issued>>

\* Repository's DeleteTheme already checks ownership and if it's default
UseCaseDeleteThemeCall(p) ==
    /\ call[p].uc = "UseCase.DeleteTheme" /\ call[p].phase = "call"
    /\ DeleteTheme(p, call[p].userID, call[p].themeID)

(***************************************************************************)
(* Specification of the entry repository: two clients of one user, any     *)
(* caller inputs, at one instant of the clock.                             *)
(***************************************************************************)
Init ==
    /\ table = {}
    /\ call = [p \in Clients |-> IdleCall]
    /\ ret = IdleCall
    /\ now = 1
    /\ faults = 0
    /\ issued = {}

\* Caller-supplied identifiers: known ones, and the nil value in one position.
EntryUsers == {"u1"}

EntryKeyInputs ==
    (EntryUsers \X (EntryIDs \cup issued) \X Dates)
       \cup {<<Nil, "e1", 1>>, <<"u1", "e1", NoDate>>}

Next ==
    \E p \in Clients :
       \/ \E u \in EntryUsers, id \in EntryIDs \cup issued :
             GetEntryByID(p, u, id)
       \/ \E k \in EntryKeyInputs, x \in DataVals :
             CreateEntry(p, k[1], k[2], k[3], "t1", x)
       \/ \E k \in EntryKeyInputs, x \in UpdateData :
             UpdateEntryBegin(p, k[1], k[2], k[3], "t1", x, ZeroTime)
       \/ UpdateEntryStep(p)
       \/ \E k \in EntryKeyInputs :
             DeleteEntry(p, k[1], k[2], k[3])

Spec == Init /\ [][Next]_vars

(***************************************************************************)
(* Specification of the cross-date race: one entry is created, then both   *)
(* clients update it, to any date, in any interleaving, as time passes.    *)
(***************************************************************************)
NextRace ==
    \E p \in Clients :
       \/ /\ table = {}
          /\ \E d \in Dates, x \in DataVals :
                CreateEntry(p, "u1", "e1", d, "t1", x)
       \/ /\ table # {}
          /\ \E d \in Dates, x \in DataVals :
                UpdateEntryBegin(p, "u1", "e1", d, "t1", x, ZeroTime)
       \/ UpdateEntryStep(p)
       \/ AdvanceTime

SpecRace == Init /\ [][NextRace]_vars

(***************************************************************************)
(* Specification of the same-date race: one entry is created, then both    *)
(* clients update it in place, each with its own Data, in any              *)
(* interleaving, as time passes.                                           *)
(***************************************************************************)
ClientData(p) == IF p = "c1" THEN "y" ELSE "z"

NextSameDate ==
    \E p \in Clients :
       \/ /\ table = {}
          /\ \E d \in Dates : CreateEntry(p, "u1", "e1", d, "t1", "x")
       \/ \E it \in table :
             UpdateEntryBegin(p, "u1", "e1", it.EntryDate, "t1", ClientData(p), ZeroTime)
       \/ UpdateEntryStep(p)
       \/ AdvanceTime

SpecSameDate == Init /\ [][NextSameDate]_vars

(***************************************************************************)
(* Specification of entry isolation: each client is one signed-in user;    *)
(* both users work on the same EntryID and dates, each under its identity. *)
(***************************************************************************)
ClientUser(p) == IF p = "c1" THEN "u1" ELSE "u2"

IsolationDates == 1..(MaxDate - 1)

NextIsolation ==
    \E p \in Clients, id \in EntryIDs :
       \/ GetEntryByID(p, ClientUser(p), id)
       \/ \E d \in IsolationDates :
             CreateEntry(p, ClientUser(p), id, d, "t1", "x")
       \/ \E d \in IsolationDates, x \in UpdateData :
             UpdateEntryBegin(p, ClientUser(p), id, d, "t1", x, ZeroTime)
       \/ UpdateEntryStep(p)
       \/ \E d \in IsolationDates : DeleteEntry(p, ClientUser(p), id, d)

SpecIsolation == Init /\ [][NextIsolation]_vars

(***************************************************************************)
(* Specification of listing: each client is one signed-in user; the users  *)
(* create and delete entries of two themes on the dates and list any       *)
(* range of instants under any theme.                                      *)
(***************************************************************************)
TimesOfDay == {0, 1}

Times == Dates \X TimesOfDay

ListThemeIDs == {"t1", "t2"}

\* <<EntryID, EntryDate, ThemeID>> of the entries a client creates.
ListCreateInputs(p) ==
    IF ClientUser(p) = "u1"
    THEN ({"e1"} \X Dates \X {"t1"}) \cup {<<"e2", 2, "t2">>}
    ELSE {<<"e1", 2, "t1">>}

NextList ==
    \E p \in Clients :
       \/ \E k \in ListCreateInputs(p) :
             CreateEntry(p, ClientUser(p), k[1], k[2], k[3], "x")
       \/ \E k \in ListCreateInputs(p) :
             DeleteEntry(p, ClientUser(p), k[1], k[2])
       \/ \E s \in Times, e \in Times, th \in ListThemeIDs \cup {Nil} :
             ListEntriesByDateRange(p, ClientUser(p), s, e, th)

SpecList == Init /\ [][NextList]_vars

(***************************************************************************)
(* Specification of updates with any ThemeID: entries of theme t1 are      *)
(* created for the one EntryID e1 of user u1, then both clients update the *)
(* entry, to any date and with any ThemeID, CreatedAt left at its zero     *)
(* value as the update use case leaves it, and delete it, as time passes.  *)
(***************************************************************************)
NextUpdate ==
    \E p \in Clients :
       \/ \E d \in IsolationDates : CreateEntry(p, "u1", "e1", d, "t1", "x")
       \/ \E d \in IsolationDates, th \in ListThemeIDs :
             UpdateEntryBegin(p, "u1", "e1", d, th, "y", ZeroTime)
       \/ UpdateEntryStep(p)
       \/ \E d \in IsolationDates : DeleteEntry(p, "u1", "e1", d)
       \/ AdvanceTime

SpecUpdate == Init /\ [][NextUpdate]_vars

(***************************************************************************)
(* Specification of the theme repository: a default theme is provisioned,  *)
(* two clients call with any identity, theme ID and content.               *)
(***************************************************************************)
InitTheme ==
    /\ table = {DefaultTheme}
    /\ call = [p \in Clients |-> IdleCall]
    /\ ret = IdleCall
    /\ now = 1
    /\ faults = 0
    /\ issued = {}

CreateContents == {<<"n1", "f1", "s1">>}

UpdateContents == {<<"n2", "f2", "s2">>}

\* Themes are created under a caller-supplied ThemeID; a call on an existing
\* theme names a custom theme or the default one.
CreateKeyInputs(p) == {<<ClientUser(p), "t1">>, <<Nil, "t1">>}

ThemeKeyInputs(p) ==
    ({ClientUser(p)} \X ({"t1", "td"} \cup issued))
       \cup {<<Nil, "t1">>, <<ClientUser(p), Nil>>}

NextTheme ==
    \E p \in Clients :
       \/ \E k \in ThemeKeyInputs(p) : GetThemeByID(p, k[1], k[2])
       \/ \E u \in {ClientUser(p), Nil} : ListThemes(p, u)
       \/ \E k \in CreateKeyInputs(p), x \in CreateContents :
             CreateTheme(p, k[2], k[1], x[1], x[2], x[3])
       \/ CreateThemeLink(p)
       \/ CreateThemeRollback(p)
       \/ \E k \in ThemeKeyInputs(p), x \in UpdateContents :
             UpdateTheme(p, k[2], k[1], x[1], x[2], x[3])
       \/ UpdateThemeStep(p)
       \/ \E k \in ThemeKeyInputs(p) : DeleteTheme(p, k[1], k[2])
       \/ DeleteThemeMeta(p)
       \/ DeleteThemeLink(p)

SpecTheme == InitTheme /\ [][NextTheme]_vars

(***************************************************************************)
(* Specification of reading themes: the table is provisioned with any of   *)
(* a default theme, a theme of u1 and a non-default theme that has no      *)
(* owner attribute; any caller reads any theme.                            *)
(***************************************************************************)
\* A stored non-default theme whose OwnerUserID is absent (omitempty, nil).
OwnerlessTheme ==
    [PK |-> themePK("t0"), SK |-> themeMetadataSK, ThemeID |-> "t0",
     ThemeName |-> "n0", Fields |-> "f0", IsDefault |-> FALSE,
     SupportedFeatures |-> "s0", CreatedAt |-> 1, UpdatedAt |-> 1]

ProvisionedThemes ==
    {DefaultTheme, OwnerlessTheme, ThemeItem("t1", "n1", "f1", "s1", "u1", 1, 1)}

InitGet ==
    /\ table \in SUBSET ProvisionedThemes
    /\ call = [p \in Clients |-> IdleCall]
    /\ ret = IdleCall
    /\ now = 1
    /\ faults = 0
    /\ issued = {}

NextGet ==
    \E p \in Clients, u \in Users \cup {Nil}, th \in {"td", "t0", "t1"} :
       GetThemeByID(p, u, th)

SpecGet == InitGet /\ [][NextGet]_vars

(***************************************************************************)
(* Specification of the use cases: client c1 creates, updates and deletes  *)
(* the theme t1 of user u1, the ThemeID being given by the caller, while   *)
(* client c2 creates, updates and deletes the entry e1 of that user under  *)
(* t1.  The inputs hold a case of every check of the validations.          *)
(***************************************************************************)
FieldA == ThemeField(<<"a">>, "A", FieldTypeText, TRUE)

FieldB == ThemeField(<<"b", "_", "1">>, "B", FieldTypeNumber, TRUE)

Fields1 == <<FieldA>>

Fields2 == <<[FieldA EXCEPT !.Required = FALSE], FieldB>>

\* Themes that pass Theme.Validate: <<ThemeName, Fields, SupportedFeatures>>.
ValidThemes == {<<"n1", Fields1, <<"SumAll">>>>, <<"n2", Fields2, <<"custom">>>>}

\* Themes that fail it, one for each of its checks.
InvalidThemes ==
    {<<"", Fields1, <<>>>>,
     <<"n1", <<>>, <<>>>>,
     <<"n1", <<FieldA, [FieldB EXCEPT !.Name = <<>>]>>, <<>>>>,
     <<"n1", <<[FieldA EXCEPT !.Name = <<"A", " ", "b">>]>>, <<>>>>,
     <<"n1", <<[FieldA EXCEPT !.Name = <<"1", "a">>]>>, <<>>>>,
     <<"n1", <<[FieldA EXCEPT !.Label = ""]>>, <<>>>>,
     <<"n1", <<FieldA, [FieldB EXCEPT !.Name = <<"a">>]>>, <<>>>>,
     <<"n1", <<[FieldA EXCEPT !.Type = "json"]>>, <<>>>>,
     <<"n1", Fields1, <<"custom", "">>>>,
     <<"n1", Fields1, <<"SumAll", "SumAll">>>>}

\* The arguments of UseCase.CreateTheme: <<ThemeID, OwnerUserID, theme>>.
CreateThemeInputs ==
    {<<"t1", "u1", th>> : th \in ValidThemes}
       \cup {<<"t1", "u1", th>> : th \in InvalidThemes}
       \cup {<<"t1", Nil, <<"n1", Fields1, <<>>>>>>}

\* The arguments of UseCase.UpdateTheme: <<themeID, ThemeID of the body,
\* OwnerUserID of the body, theme>>.
UpdateThemeInputs ==
    {<<"t1", "t1", "u1", th>> : th \in ValidThemes}
       \cup {<<"t1", "t1", "u1", <<"n1", <<>>, <<>>>>>>,
             <<"t1", "t1", "u1", <<"n1", Fields1, <<"custom", "">>>>>>}
       \cup {<<ids[1], ids[2], ids[3], <<"n1", Fields1, <<>>>>>> :
                ids \in {<<Nil, "t1", "u1">>, <<"t1", "g1", "u1">>,
                         <<"t1", "t1", "u2">>, <<"t1", "t1", Nil>>}}

\* Maps of one and of two keys.
Map1(k, v) == [n \in {k} |-> v]

Map2(k1, v1, k2, v2) == [n \in {k1, k2} |-> IF n = k1 THEN v1 ELSE v2]

\* Data that pass the validation against Fields1, or against Fields2.
ValidData ==
    {Map1(<<"a">>, String("x")),
     Map2(<<"a">>, String("x"), <<"b", "_", "1">>, Number(1))}

\* Data that fail it against both, or against one of them.
InvalidData ==
    {Map1(<<"b", "_", "1">>, Number(1)),
     Map1(<<"a">>, String("")),
     Map1(<<"a">>, Null),
     Map1(<<"a">>, Number(1)),
     Map2(<<"a">>, String("x"), <<"b", "_", "1">>, String("x")),
     Map2(<<"a">>, String("x"), <<"c">>, Boolean(TRUE))}

\* The entry given to UseCase.CreateEntry: <<EntryDate, Data>>.
CreateEntryInputs ==
    {<<1, x>> : x \in ValidData \cup InvalidData}

NextUseCase ==
    \/ \E in \in CreateThemeInputs :
          UseCaseCreateTheme("c1", in[1], in[2], in[3][1], in[3][2], in[3][3])
    \/ UseCaseCreateThemeCall("c1")
    \/ CreateThemeLink("c1")
    \/ CreateThemeRollback("c1")
    \/ UseCaseCreateThemeFetch("c1")
    \/ \E in \in UpdateThemeInputs :
          UseCaseUpdateTheme("c1", "u1", in[1], in[2], in[3],
                             in[4][1], in[4][2], in[4][3])
    \/ UseCaseUpdateThemeCall("c1")
    \/ UpdateThemeStep("c1")
    \/ UseCaseDeleteTheme("c1", "u1", "t1")
    \/ UseCaseDeleteThemeCall("c1")
    \/ DeleteThemeMeta("c1")
    \/ DeleteThemeLink("c1")
    \/ \E in \in CreateEntryInputs :
          UseCaseCreateEntry("c2", "u1", "e1", in[1], "t1", in[2])
    \/ UseCaseCreateEntryCall("c2")
    \/ UseCaseCreateEntryFetch("c2")
    \/ updateEntryUseCaseExecute("c2", "u1", "e1", 2, Map1(<<"a">>, String("y")))
    \/ deleteEntryUseCaseExecute("c2", "u1", "e1")
    \/ UseCaseDeleteEntry("c2", "u1", "e1")
    \/ AdvanceTime

SpecUseCase == Init /\ [][NextUseCase]_vars

(***************************************************************************)
(* Specification of the two repositories over the one table: client c1     *)
(* creates, updates and deletes the theme t1 of user u1 while client c2    *)
(* creates, updates and deletes the entry e1 of that user, as time passes. *)
(***************************************************************************)
NextKeys ==
    \/ CreateTheme("c1", "t1", "u1", "n1", "f1", "s1")
    \/ CreateThemeLink("c1")
    \/ CreateThemeRollback("c1")
    \/ UpdateTheme("c1", "t1", "u1", "n2", "f2", "s2")
    \/ UpdateThemeStep("c1")
    \/ DeleteTheme("c1", "u1", "t1")
    \/ DeleteThemeMeta("c1")
    \/ DeleteThemeLink("c1")
    \/ \E d \in IsolationDates : CreateEntry("c2", "u1", "e1", d, "t1", "x")
    \/ \E d \in IsolationDates :
          UpdateEntryBegin("c2", "u1", "e1", d, "t1", "y", ZeroTime)
    \/ UpdateEntryStep("c2")
    \/ \E d \in IsolationDates : DeleteEntry("c2", "u1", "e1", d)
    \/ AdvanceTime

SpecKeys == Init /\ [][NextKeys]_vars

(***************************************************************************)
(* Specification of renaming: the theme t1 of user u1 is stored with its   *)
(* link; two clients, both acting as u1, update it, each with a name of    *)
(* its own.                                                                *)
(***************************************************************************)
InitRename ==
    /\ table = {ThemeItem("t1", "n1", "f1", "s1", "u1", 1, 1),
                LinkItem("u1", "t1", "n1", 1)}
    /\ call = [p \in Clients |-> IdleCall]
    /\ ret = IdleCall
    /\ now = 1
    /\ faults = 0
    /\ issued = {}

ClientName(p) == IF p = "c1" THEN "na" ELSE "nb"

NextRename ==
    \/ \E p \in Clients, f \in {"f1", "f2"} :
          UpdateTheme(p, "t1", "u1", ClientName(p), f, "s1")
    \/ \E p \in Clients : UpdateThemeStep(p)
    \/ AdvanceTime

SpecRename == InitRename /\ [][NextRename]_vars

(***************************************************************************)
(* Properties                                                              *)
(***************************************************************************)
CondCheck ==
    "entry update failed due to condition check (original not found or target date conflict)"

\* The stored items of the entry entryID of user userID.
EntriesOf(t, userID, entryID) ==
    {it \in t : /\ "EntryDate" \in DOMAIN it
                /\ it.PK = userPK(userID)
                /\ it.EntryID = entryID}

RaceCount(t) == Cardinality(EntriesOf(t, "u1", "e1"))

\* The step is taken by a call carrying the identity u.
ActingUser(u) ==
    \/ ret'.op # "idle" /\ ret'.userID = u
    \/ \E p \in Clients : call'[p] # call[p] /\ InFlight(call'[p]) /\ call'[p].userID = u

\* The step is taken by a call of one of the operations ops.
ActingOp(ops) ==
    \/ ret'.op \in ops
    \/ \E p \in Clients : call'[p] # call[p] /\ InFlight(call'[p]) /\ call'[p].op \in ops

\* Client p takes the step that ends its call.
Returns(p) == InFlight(call[p]) /\ ~InFlight(call'[p])

\* C1: of two concurrent UpdateEntry calls that move one stored entry to two
\* different new dates, exactly one succeeds and the other fails; the store
\* always holds exactly one item for the entry.
OrigC1 ==
    /\ table # {} => RaceCount(table) = 1
    /\ (/\ ret.op = "UpdateEntry" /\ ret.peer # "-" /\ faults = 0
        /\ ret.date # ret.peerDate
        /\ \A it \in EntriesOf(table, ret.userID, ret.id) :
              it.EntryDate \notin {ret.date, ret.peerDate} \/ ret.result = "ok"
                                                       \/ ret.peer = "ok")
          => (ret.result = "ok") # (ret.peer = "ok")

\* Client p returns from an UpdateEntry whose new date differs from the date
\* the entry is stored under.
MovesEntry(p) ==
    /\ call[p].op = "UpdateEntry"
    /\ IF call[p].phase = "get"
       THEN \A it \in EntriesOf(table, call[p].userID, call[p].id) :
               it.EntryDate # call[p].date
       ELSE call[p].oldDate # call[p].date
    /\ Returns(p)

\* C2: a cross-date UpdateEntry deletes the old key and puts the new key as
\* one atomic step; on success the old key is absent, the new key is present,
\* GetEntryByID returns the new EntryDate and ListEntriesByDateRange over the
\* old date alone no longer returns the entry; on failure neither key is
\* changed, and without a failure of the store the update of a stored entry
\* fails only when the old key has vanished or the new key is occupied.
OrigC2 ==
    [][ \A p \in Clients : MovesEntry(p) =>
          LET c == call[p]
              pk == userPK(c.userID)
              oldSK == entrySK(c.oldDate, c.id)
              newSK == entrySK(c.date, c.id)
              found == QueryByEntryID(table', c.userID, c.id)
          IN IF ret'.result = "ok"
             THEN /\ ~Exists(table', pk, oldSK)
                  /\ Exists(table', pk, newSK)
                  /\ found # {}
                  /\ FirstByGSI1SK(found).EntryDate = c.date
                  /\ \A it \in QueryDateRange(table', c.userID, c.oldDate,
                                              c.oldDate, c.themeID) :
                        it.EntryID # c.id
             ELSE /\ table' = table
                  /\ faults' = faults
                        => \/ EntriesOf(table, c.userID, c.id) = {}
                           \/ /\ c.phase = "write"
                              /\ \/ ~Exists(table, pk, oldSK)
                                 \/ Exists(table, pk, newSK) ]_vars

NotFoundErrors == {"entry not found", ErrNotFound}

ConflictErrors == {"entry already exists", ErrAlreadyExists}

\* C3: the error of a cancelled cross-date transaction tells the cause:
\* NotFound when the condition of the delete of the old key failed, Conflict
\* when the condition of the put of the new key failed, a generic
\* transaction failure otherwise.
OrigC3 ==
    (ret.op = "UpdateEntry" /\ ret.reasons # <<>>) =>
       IF ret.reasons[1] = "ConditionalCheckFailed"
       THEN ret.result \in NotFoundErrors
       ELSE IF ret.reasons[2] = "ConditionalCheckFailed"
       THEN ret.result \in ConflictErrors
       ELSE ret.result = "entry update transaction cancelled"

LinkError == "failed to create user-theme link"

MetaError == "failed to create theme metadata"

RollbackFailed == "ERROR: Failed to rollback theme metadata"

\* C4: when the metadata PutItem of CreateTheme has succeeded and the link
\* PutItem fails, CreateTheme goes on to a DeleteItem on the metadata key of
\* its ThemeID and then returns the link error, which it returns in no other
\* way; when that DeleteItem succeeds the metadata item of the ThemeID is
\* absent as CreateTheme returns, and when it fails the store is left as it
\* was and the failure is logged.
ThmC4 ==
    [][ /\ \A p \in Clients :
             LET c == call[p]
             IN /\ (/\ c.op = "CreateTheme" /\ c.phase = "link"
                    /\ call'[p] # c /\ faults' # faults)
                      => /\ call'[p].phase = "rollback"
                         /\ table' = table
                /\ (c.op = "CreateTheme" /\ c.phase = "rollback" /\ Returns(p))
                      => /\ ret'.result = LinkError
                         /\ IF faults' = faults
                            THEN /\ table' = StoreDelete(table, themePK(c.themeID),
                                                        themeMetadataSK)
                                 /\ MetadataAt(table', c.themeID) = {}
                            ELSE /\ table' = table
                                 /\ RollbackFailed \in ret'.logged
        /\ (ret'.op = "CreateTheme" /\ ret'.result = LinkError)
              => \E p \in Clients : call[p].phase = "rollback" /\ Returns(p)
        /\ (/\ ret'.op = "CreateTheme" /\ ret'.result = LinkError
            /\ RollbackFailed \notin ret'.logged)
              => MetadataAt(table', ret'.themeID) = {} ]_vars

\* A CreateTheme whose link write failed has returned the link error after a
\* rollback that removed the metadata item it had written.
WitC4 ==
    /\ ret.op = "CreateTheme" /\ ret.result = LinkError
    /\ RollbackFailed \notin ret.logged
    /\ MetadataAt(table, ret.themeID) = {}
    /\ faults = 1

\* C5: when the metadata PutItem of CreateTheme fails, CreateTheme returns the
\* metadata error at once: it makes no further store call, writes no link
\* item and leaves the store unchanged; a CreateTheme goes on to its link
\* write only after a metadata PutItem that succeeded.
ThmC5 ==
    [][ /\ (ret'.op = "CreateTheme" /\ call' = call /\ faults' # faults)
              => ret'.result = MetaError
        /\ (ret'.op = "CreateTheme" /\ ret'.result = MetaError)
              => table' = table /\ call' = call
        /\ \A p \in Clients :
              (~InFlight(call[p]) /\ call'[p].op = "CreateTheme")
                 => /\ faults' = faults
                    /\ call'[p].phase = "link"
                    /\ \E it \in MetadataAt(table', call'[p].themeID) :
                          it.OwnerUserID = call'[p].userID ]_vars

\* A CreateTheme has returned the metadata error; the store holds neither a
\* metadata item nor a link item of its theme.
WitC5 ==
    /\ ret.op = "CreateTheme" /\ ret.result = MetaError
    /\ MetadataAt(table, ret.themeID) = {}
    /\ ~Exists(table, userPK(ret.userID), userThemeLinkSK(ret.themeID))

\* C6: for a theme whose stored metadata item has IsDefault = true and for
\* every caller identity, UpdateTheme and DeleteTheme return an error,
\* DeleteTheme never reaches a DeleteItem, UpdateTheme never reaches its link
\* update, and no step of either operation changes or removes a default
\* theme's metadata item.
ThmC6 ==
    [][ /\ (ret'.op \in {"UpdateTheme", "DeleteTheme"} /\ ret'.sawDefault)
              => ret'.result # "ok"
        /\ \A p \in Clients :
              (call'[p].op \in {"UpdateTheme", "DeleteTheme"} /\ call'[p].sawDefault)
                 => call'[p].phase \notin {"meta", "link"}
        /\ ActingOp({"UpdateTheme", "DeleteTheme"})
              => \A it \in table :
                    ("IsDefault" \in DOMAIN it /\ it.IsDefault) => it \in table' ]_vars

\* DeleteTheme on the default theme has returned its error and the default
\* theme is still stored.
WitC6 ==
    /\ ret.op = "DeleteTheme" /\ ret.sawDefault
    /\ ret.result = "cannot delete default theme"
    /\ ret.userID \in Users
    /\ DefaultTheme \in table

\* Errors of the kinds NotFound and Forbidden, by sentinel, by message, or
\* as the wrapped cause of DeleteTheme's error.
ForbiddenOrNotFound(r) ==
    \/ r.result \in {ErrNotFound, ErrForbidden, "theme not found", "forbidden"}
    \/ /\ r.result = "failed to get theme for deletion check"
       /\ r.cause \in {"theme not found", "forbidden"}

\* C7 (as stated): for a non-default theme owned by A and a caller B different
\* from A, GetThemeByID, UpdateTheme and DeleteTheme called with B's identity
\* return Forbidden or NotFound (when no store call fails for an
\* infrastructure reason), never return the theme's data and never change
\* or remove its metadata item.
OrigC7 ==
    [][ /\ (/\ ret'.op \in {"GetThemeByID", "UpdateTheme", "DeleteTheme"}
            /\ ret'.userID # Nil /\ ret'.themeID # Nil /\ faults' = faults
            /\ ~ret'.sawDefault /\ ret'.sawOwner \notin {Nil, ret'.userID})
              => ForbiddenOrNotFound(ret') /\ ret'.ret = NoItem
        /\ \A it \in table :
              (/\ "IsDefault" \in DOMAIN it /\ ~it.IsDefault /\ it \notin table'
               /\ ActingOp({"GetThemeByID", "UpdateTheme", "DeleteTheme"}))
                 => ActingUser(it.OwnerUserID) ]_vars

Partition(t, userID) == {it \in t : it.PK = userPK(userID)}

\* C8: a step of an entry call changes only the partition of the identity
\* the call carries; GetEntryByID returns only an item of the caller's
\* partition, and the stored date UpdateEntry reads is that of an item of the
\* caller's partition: whatever EntryID and EntryDate B supplies, B's calls
\* neither return nor change nor remove an item of A.
ThmC8 ==
    [][ /\ \A u \in Users :
              Partition(table', u) # Partition(table, u) => ActingUser(u)
        /\ ret'.ret # NoItem
              => /\ ret'.ret.PK = userPK(ret'.userID)
                 /\ ret'.ret.UserID = ret'.userID
        /\ \A p \in Clients :
              (call[p].phase = "get" /\ call'[p].phase = "write")
                 => Exists(table, userPK(call[p].userID),
                           entrySK(call'[p].oldDate, call[p].id)) ]_vars

\* User u2 has called DeleteEntry with the EntryID and EntryDate of an entry
\* of u1: the call found nothing and the entry of u1 is still stored.
WitC8 ==
    /\ ret.op = "DeleteEntry" /\ ret.userID = "u2"
    /\ ret.result = "entry not found"
    /\ Exists(table, userPK("u1"), entrySK(ret.date, ret.id))

\* C9: CreateEntry on a key that is already stored fails with "entry already
\* exists" and leaves the store as it is, so the stored item stays the one
\* written by the call that succeeded; CreateEntry succeeds only on a key
\* that is not stored, and then adds exactly its own item.  Of two calls
\* deriving the same key with nothing removing the item in between, the
\* first succeeds and the second fails.
ThmC9 ==
    [][ (ret'.op = "CreateEntry" /\ ret'.userID # Nil /\ ret'.date # NoDate) =>
          LET c == ret'
              pk == userPK(c.userID)
              sk == entrySK(c.date, c.id)
          IN /\ (Exists(table, pk, sk) /\ faults' = faults)
                   => ret'.result = "entry already exists"
             /\ ret'.result # "ok" => table' = table
             /\ ret'.result = "ok"
                   => /\ ~Exists(table, pk, sk)
                      /\ table' = table \cup {EntryItem(c.userID, c.id, c.date,
                                                        c.themeID, c.data, now, now)} ]_vars

\* A second CreateEntry for a stored key, with other data, has failed with
\* "entry already exists"; the stored item still carries the first call's data.
WitC9 ==
    /\ ret.op = "CreateEntry" /\ ret.result = "entry already exists"
    /\ \E it \in ItemsAt(table, userPK(ret.userID), entrySK(ret.date, ret.id)) :
          it.Data # ret.data

\* Client p returns from an UpdateEntry whose date is the one the entry is
\* stored under.
UpdatesInPlace(p) ==
    /\ call[p].op = "UpdateEntry"
    /\ IF call[p].phase = "get"
       THEN \E it \in EntriesOf(table, call[p].userID, call[p].id) :
               it.EntryDate = call[p].date
       ELSE call[p].oldDate = call[p].date
    /\ Returns(p)

\* C10: a same-date UpdateEntry is one UpdateItem conditioned on the
\* existence of the key ENTRY#date#id: it fails with "entry not found" when
\* the key is not stored at the write (the entry was deleted or moved after
\* the GetEntryByID), and without a failure of the store only then; a failing
\* call leaves the store unchanged; when it succeeds the key was stored and
\* exactly that item is replaced by its update, so the update never re-creates
\* a removed entry.
OrigC10 ==
    [][ \A p \in Clients : UpdatesInPlace(p) =>
          LET c == call[p]
              pk == userPK(c.userID)
              sk == entrySK(c.date, c.id)
          IN /\ (~Exists(table, pk, sk) /\ faults' = faults)
                   => ret'.result = "entry not found"
             /\ (Exists(table, pk, sk) /\ faults' = faults)
                   => ret'.result = "ok"
             /\ ret'.result # "ok" => table' = table
             /\ ret'.result = "ok"
                   => \E it \in ItemsAt(table, pk, sk) :
                         table' = (table \ {it}) \cup {UpdatedItem(it, c, now)} ]_vars

\* The entries of an owner and a theme dated from start to end, both included.
EntriesInRange(t, userID, start, end, themeID) ==
    {it \in t : /\ "EntryDate" \in DOMAIN it
                /\ it.UserID = userID /\ it.ThemeID = themeID
                /\ start <= it.EntryDate /\ it.EntryDate <= end}

ListOp == "ListEntriesByDateRange"

\* C11: a ListEntriesByDateRange that succeeds returns exactly the stored
\* entries of the calling owner and of the theme asked for whose EntryDate d
\* satisfies start <= d <= end, start and end being the days of the two
\* instants, both included: no entry dated outside the range, no entry of
\* another theme and no entry of another owner is returned, and none in the
\* range is left out.
ThmC11 ==
    (ret.op = ListOp /\ ret.result = "ok") =>
       /\ ret.items = EntriesInRange(table, ret.userID, Format(ret.startDate),
                                     Format(ret.endDate), ret.themeID)
       /\ \A it \in ret.items :
             /\ it.PK = userPK(ret.userID)
             /\ it.ThemeID = ret.themeID
             /\ Format(ret.startDate) <= it.EntryDate
             /\ it.EntryDate <= Format(ret.endDate)

\* The owner u1 has entries of theme t1 on the dates 1, 2 and 3 and an entry
\* of theme t2 on date 2, u2 has an entry of theme t1 on date 2; the range
\* (1, 2) of theme t1 has returned exactly the two entries of u1 dated 1 and 2.
WitC11 ==
    /\ ret.op = ListOp /\ ret.result = "ok"
    /\ ret.userID = "u1" /\ ret.themeID = "t1"
    /\ Format(ret.startDate) = 1 /\ Format(ret.endDate) = 2
    /\ {it.EntryDate : it \in ret.items} = {1, 2}
    /\ Cardinality(ret.items) = 2
    /\ \E it \in table : it.PK = userPK("u1") /\ it.ThemeID = "t1" /\ it.EntryDate = 3
    /\ \E it \in table : it.PK = userPK("u1") /\ it.ThemeID = "t2" /\ it.EntryDate = 2
    /\ \E it \in table : it.PK = userPK("u2") /\ it.ThemeID = "t1" /\ it.EntryDate = 2

\* The range (2, 2) has returned exactly the one entry dated 2, entries of the
\* theme being stored on the dates 1 and 3 as well.
WitC11Single ==
    /\ ret.op = ListOp /\ ret.result = "ok"
    /\ Format(ret.startDate) = 2 /\ Format(ret.endDate) = 2
    /\ Cardinality(ret.items) = 1
    /\ \A d \in {1, 3} : \E it \in table :
          it.PK = userPK(ret.userID) /\ it.ThemeID = ret.themeID /\ it.EntryDate = d

StartAfterEnd == "start date cannot be after end date"

ThemeRequired == "theme ID is required to filter entries"

\* C20: ListEntriesByDateRange rejects invalid arguments before it touches
\* the store: when the start instant is after the end instant it returns
\* "start date cannot be after end date", otherwise when the ThemeID is the
\* nil identifier it returns "theme ID is required to filter entries"; in
\* both cases it has issued no query (so no store failure can occur), it
\* returns no entries and the store is unchanged.
ThmC20 ==
    [][ (/\ ret'.op = ListOp
         /\ After(ret'.startDate, ret'.endDate) \/ ret'.themeID = Nil)
           => /\ ret'.result = IF After(ret'.startDate, ret'.endDate)
                               THEN StartAfterEnd ELSE ThemeRequired
              /\ ~ret'.queried
              /\ ret'.items = {}
              /\ faults' = faults
              /\ table' = table ]_vars

\* A range whose start instant is after its end instant has been rejected
\* without a query, entries of the caller and of the theme being stored.
WitC20 ==
    /\ ret.op = ListOp /\ After(ret.startDate, ret.endDate)
    /\ ret.result = StartAfterEnd /\ ~ret.queried
    /\ \E it \in table : it.PK = userPK(ret.userID) /\ it.ThemeID = ret.themeID

\* The step is a CreateEntry that succeeds, and a GetEntryByID by the owner
\* on the store it leaves returns an entry equal to the input on ThemeID,
\* UserID, EntryDate and Data.
RoundTripEntry ==
    (ret'.op = "CreateEntry" /\ ret'.result = "ok") =>
       LET found == QueryByEntryID(table', ret'.userID, ret'.id)
           got == FirstByGSI1SK(found)
       IN /\ found # {}
          /\ got.ThemeID = ret'.themeID /\ got.UserID = ret'.userID
          /\ got.EntryDate = ret'.date /\ got.Data = ret'.data

\* The step is the one by which a CreateTheme succeeds, and a GetThemeByID by
\* the owner on the store it leaves returns a theme equal to the input on
\* ThemeName, Fields, SupportedFeatures and OwnerUserID, with IsDefault false.
RoundTripTheme ==
    (ret'.op = "CreateTheme" /\ ret'.result = "ok") =>
       LET r == getThemeByID(table', ret'.userID, ret'.themeID)
       IN /\ r.err = "nil"
          /\ r.theme.ThemeName = ret'.name /\ r.theme.Fields = ret'.fields
          /\ r.theme.SupportedFeatures = ret'.features
          /\ OwnedBy(r.theme, ret'.userID) /\ ~r.theme.IsDefault

\* C12 (as stated): CreateTheme followed by GetThemeByID by the owner returns
\* a theme equal on ThemeName, Fields, SupportedFeatures and OwnerID with
\* IsDefault = false; CreateEntry followed by GetEntryByID by the owner
\* returns an entry equal on ThemeID, OwnerID, EntryDate and Data.
OrigC12 == [][RoundTripEntry /\ RoundTripTheme]_vars

\* C13: GetThemeByID whose GetItem does not fail returns "theme not found"
\* when no metadata item is stored for the ThemeID, "forbidden" when the item
\* is not default and its owner is missing or is not the caller, and the
\* stored theme otherwise (a default theme for any caller, a non-default
\* theme for its owner); it returns no theme with an error and never changes
\* the store.
ThmC13 ==
    [][ (ret'.op = "GetThemeByID" /\ faults' = faults) =>
          LET found == MetadataAt(table, ret'.themeID)
              th == CHOOSE it \in found : TRUE
              owner == IF "OwnerUserID" \in DOMAIN th THEN {th.OwnerUserID} ELSE {}
          IN /\ table' = table
             /\ IF found = {}
                THEN ret'.result = "theme not found" /\ ret'.ret = NoItem
                ELSE IF ~th.IsDefault /\ owner # {ret'.userID}
                THEN ret'.result = "forbidden" /\ ret'.ret = NoItem
                ELSE ret'.result = "ok" /\ ret'.ret = th ]_vars

\* A caller has asked for a stored non-default theme that has no owner and
\* has been refused.
WitC13 ==
    /\ ret.op = "GetThemeByID" /\ ret.result = "forbidden"
    /\ ret.userID \in Users /\ ret.ret = NoItem
    /\ \E it \in MetadataAt(table, ret.themeID) :
          ~it.IsDefault /\ "OwnerUserID" \notin DOMAIN it

\* The ThemeIDs for which user u has a link item and no metadata item is
\* stored (dangling links).
DanglingLinks(t, u) ==
    {it.ThemeID : it \in {l \in t : /\ l.PK = userPK(u) /\ l.SK[1] = "THEME"
                                     /\ MetadataAt(t, l.ThemeID) = {}}}

\* The ThemeIDs of the themes owned by u that are stored without a link item.
MissingLinks(t, u) ==
    {it.ThemeID : it \in {m \in ScanMetadata(t) :
                              /\ OwnedBy(m, u)
                              /\ ~Exists(t, userPK(u), userThemeLinkSK(m.ThemeID))}}

\* C14: a ListThemes that succeeds returns exactly the stored metadata items
\* that are default or owned by the caller: the result is the same with all
\* link items removed from the store, it holds no theme of a dangling link,
\* it holds every theme of the caller whose link is missing, and it holds no
\* theme owned by another user.
ThmC14 ==
    (ret.op = "ListThemes" /\ ret.result = "ok") =>
       /\ ret.items = {it \in table : /\ it.PK[1] = "THEME" /\ it.SK = <<"METADATA">>
                                      /\ (it.IsDefault \/ OwnedBy(it, ret.userID))}
       /\ ret.items = {it \in ScanMetadata(table) \ {l \in table : l.PK[1] = "USER"} :
                          it.IsDefault \/ OwnedBy(it, ret.userID)}
       /\ \A it \in ret.items :
             /\ it.ThemeID \notin DanglingLinks(table, ret.userID)
             /\ "OwnerUserID" \in DOMAIN it => it.OwnerUserID = ret.userID
       /\ \A th \in MissingLinks(table, ret.userID) :
             \E it \in ret.items : it.ThemeID = th

\* The caller's link to a deleted theme is left dangling; ListThemes has
\* returned the default theme only.
WitC14 ==
    /\ ret.op = "ListThemes" /\ ret.result = "ok" /\ ret.userID \in Users
    /\ DanglingLinks(table, ret.userID) # {}
    /\ ret.items = {DefaultTheme}

\* The caller has a link item to a theme whose stored metadata item is owned
\* by another user; ListThemes has returned the default theme only.
WitC14Stale ==
    /\ ret.op = "ListThemes" /\ ret.result = "ok" /\ ret.userID \in Users
    /\ \E l \in table :
          /\ l.PK = userPK(ret.userID) /\ l.SK[1] = "THEME"
          /\ \E it \in MetadataAt(table, l.ThemeID) : it.OwnerUserID # ret.userID
    /\ ret.items = {DefaultTheme}

\* The caller owns a stored theme whose link item is missing; ListThemes has
\* returned that theme.
WitC14Missing ==
    /\ ret.op = "ListThemes" /\ ret.result = "ok"
    /\ \E th \in MissingLinks(table, ret.userID) :
          \E it \in ret.items : it.ThemeID = th

\* errors.Is on what a call returned: the error itself or the error it wraps.
Matches(r, target) == errorsIs(r.result, target) \/ errorsIs(r.cause, target)

\* C15 (as stated): when the conditional metadata write of UpdateTheme has
\* failed its condition, the follow-up read makes UpdateTheme return
\* domain.ErrNotFound if no metadata item is stored for the theme and
\* domain.ErrForbidden if one is stored that is default or not owned by the
\* caller; in both cases nothing is written.
OrigC15 ==
    [][ \A p \in Clients :
          (/\ call[p].op = "UpdateTheme" /\ call[p].phase = "check"
           /\ Returns(p) /\ faults' = faults)
             => LET found == MetadataAt(table, call[p].themeID)
                IN /\ table' = table
                   /\ found = {} => ret'.result = ErrNotFound
                   /\ (\E th \in found : th.IsDefault \/ ~OwnedBy(th, call[p].userID))
                         => ret'.result = ErrForbidden ]_vars

\* C16 (as stated): DeleteTheme called for a theme that is not stored returns
\* an error matching domain.ErrNotFound, called for a theme owned by another
\* user it returns an error matching domain.ErrForbidden, and in both cases
\* it issues no DeleteItem: the store is unchanged and the call has ended.
OrigC16 ==
    [][ (/\ ret'.op = "DeleteTheme" /\ ret'.userID # Nil /\ ret'.themeID # Nil
         /\ \E p \in Clients : Ready(p) /\ call' = call
         /\ faults' = faults)
           => LET found == MetadataAt(table, ret'.themeID)
              IN /\ found = {} => Matches(ret', ErrNotFound) /\ table' = table
                 /\ (\E th \in found : ~th.IsDefault /\ ~OwnedBy(th, ret'.userID))
                       => Matches(ret', ErrForbidden) /\ table' = table ]_vars

LinkUpdateWarning == "WARN: Failed to update ThemeName in UserThemeLink"

LinkDeleteWarning == "WARN: Failed to delete user-theme link"

\* C17: the link writes that follow a metadata change are best effort.  The
\* metadata UpdateItem of UpdateTheme stores the new ThemeName before the
\* link update, and the metadata DeleteItem of DeleteTheme removes the
\* metadata item before the link delete; the link step always returns
\* success, and when it fails (store failure, or no link item to update) it
\* logs a warning, leaves every item as it is - the metadata change is not
\* undone and the link stays stale or dangling - and reports nothing to the
\* caller.
ThmC17 ==
    [][ \A p \in Clients :
          LET c == call[p]
              d == call'[p]
              linkStep == c.op \in {"UpdateTheme", "DeleteTheme"} /\ c.phase = "link"
              failed == \/ faults' # faults
                        \/ /\ c.op = "UpdateTheme"
                           /\ ~Exists(table, userPK(c.userID), userThemeLinkSK(c.themeID))
          IN /\ (~InFlight(c) /\ d.op = "UpdateTheme" /\ d.phase = "link")
                   => \E it \in MetadataAt(table', d.themeID) : it.ThemeName = d.name
             /\ (c.op = "DeleteTheme" /\ c.phase = "meta" /\ d.phase = "link")
                   => MetadataAt(table', c.themeID) = {}
             /\ (linkStep /\ d # c)
                   => /\ Returns(p) /\ ret'.result = "ok"
                      /\ MetadataAt(table', c.themeID) = MetadataAt(table, c.themeID)
                      /\ failed => /\ table' = table
                                    /\ ret'.logged # {} ]_vars

\* DeleteTheme has returned success after a failed link delete: the metadata
\* item is absent and the link item is still stored.
WitC17 ==
    /\ ret.op = "DeleteTheme" /\ ret.result = "ok"
    /\ LinkDeleteWarning \in ret.logged
    /\ MetadataAt(table, ret.themeID) = {}
    /\ Exists(table, userPK(ret.userID), userThemeLinkSK(ret.themeID))

\* C18: DeleteEntry(owner, entryID, entryDate) is one DeleteItem on the key
\* (USER#owner, ENTRY#entryDate#entryID) under the condition that the key
\* is stored: when it succeeds the key was stored and exactly that item is
\* removed; when no item has the key - also when the entry is stored under
\* another date than the one supplied - it fails with "entry not found";
\* whenever it fails the store is unchanged.
ThmC18 ==
    [][ (/\ ret'.op = "DeleteEntry"
         /\ ret'.userID # Nil /\ ret'.id # Nil /\ ret'.date # NoDate) =>
          LET pk == userPK(ret'.userID)
              sk == entrySK(ret'.date, ret'.id)
          IN /\ (~Exists(table, pk, sk) /\ faults' = faults)
                   => ret'.result = "entry not found"
             /\ ret'.result # "ok" => table' = table
             /\ ret'.result = "ok"
                   => \E it \in table :
                         /\ it.PK = pk /\ it.SK = sk
                         /\ table' = table \ {it} ]_vars

\* DeleteEntry was given a date under which the entry is not stored, the
\* entry being stored under another date: it has failed with "entry not
\* found" and the entry is still stored.
WitC18 ==
    /\ ret.op = "DeleteEntry" /\ ret.result = "entry not found"
    /\ \E it \in EntriesOf(table, ret.userID, ret.id) :
          it.EntryDate # ret.date

\* C19: two concurrent same-date UpdateEntry calls on one stored entry both
\* succeed, no store failure assumed: each write replaces the Data of the one
\* stored item by the Data of the call that writes, together with its
\* UpdatedAt, so the stored Data is that of the write applied last and never a
\* mix; no step other than a successful write changes the item, and the store
\* holds exactly one item for the entry throughout.
OrigC19 ==
    [][ /\ table # {} => RaceCount(table') = 1 /\ Cardinality(table') = 1
        /\ \A p \in Clients :
              (UpdatesInPlace(p) /\ faults' = faults)
                 => /\ ret'.result = "ok"
                    /\ \A it \in table' :
                          /\ it.Data = call[p].data /\ it.UpdatedAt = now
                          /\ it.EntryDate = call[p].date
                          /\ it.SK = entrySK(call[p].date, call[p].id)
        /\ (table # {} /\ table' # table)
              => /\ ret'.op = "UpdateEntry" /\ ret'.result = "ok"
                 /\ \A it \in table' : it.Data = ret'.data ]_vars

OrigC27 ==
    \A u \in Users, id \in EntryIDs \cup issued :
       Cardinality(EntriesOf(table, u, id)) <= 1

\* C22: the Data keys of every stored entry are among the Field names of the
\* theme the entry references, and every Required field of that theme is a
\* key of the entry's Data.
OrigC22 ==
    \A e \in table :
       "EntryDate" \in DOMAIN e =>
          \A th \in MetadataAt(table, e.ThemeID) :
             /\ DOMAIN e.Data \subseteq {th.Fields[i].Name : i \in 1..Len(th.Fields)}
             /\ \A i \in 1..Len(th.Fields) :
                   th.Fields[i].Required => th.Fields[i].Name \in DOMAIN e.Data

\* The owner stored in a theme metadata item, Nil when it has none.
OwnerOf(it) == IF "OwnerUserID" \in DOMAIN it THEN it.OwnerUserID ELSE Nil

\* C23: each stored theme metadata item is either default with no owner, or
\* non-default with exactly one owner; CreateTheme rejects a missing owner
\* without writing and stores IsDefault = false with the caller as owner;
\* no step of UpdateTheme changes the IsDefault or the owner of a stored
\* theme, or adds or removes a theme.
ThmC23 ==
    /\ [](\A it \in ScanMetadata(table) :
             IF it.IsDefault THEN OwnerOf(it) = Nil ELSE OwnerOf(it) \in Users)
    /\ [][ /\ (ret'.op = "CreateTheme" /\ ret'.userID = Nil)
                 => /\ ret'.result = "owner user ID is required to create a theme"
                    /\ table' = table
           /\ \A p \in Clients :
                 (~InFlight(call[p]) /\ call'[p].op = "CreateTheme")
                    => /\ call'[p].userID \in Users
                       /\ \E it \in MetadataAt(table', call'[p].themeID) :
                             ~it.IsDefault /\ OwnerOf(it) = call'[p].userID
           /\ ActingOp({"UpdateTheme"})
                 => /\ {it.ThemeID : it \in ScanMetadata(table')}
                          = {it.ThemeID : it \in ScanMetadata(table)}
                    /\ \A it \in ScanMetadata(table) :
                          \A new \in MetadataAt(table', it.ThemeID) :
                             /\ new.IsDefault = it.IsDefault
                             /\ OwnerOf(new) = OwnerOf(it) ]_vars

\* An UpdateTheme of the owner with another name has returned and the theme
\* is stored non-default and owned by the caller, next to the default theme.
WitC23 ==
    /\ ret.op = "UpdateTheme" /\ ret.userID \in Users
    /\ \E it \in MetadataAt(table, ret.themeID) :
          ~it.IsDefault /\ OwnerOf(it) = ret.userID /\ it.ThemeName # ret.name
    /\ DefaultTheme \in table

\* A CreateTheme without owner has been rejected while a theme is stored.
WitC23Reject ==
    /\ ret.op = "CreateTheme" /\ ret.userID = Nil
    /\ ret.result = "owner user ID is required to create a theme"
    /\ \E it \in ScanMetadata(table) : ~it.IsDefault

\* C26: a CreateTheme called with a ThemeID under which a metadata item is
\* stored that is a default theme or a theme of another user leaves that
\* item unchanged, in each of its steps: the metadata PutItem, the link
\* PutItem and the compensating DeleteItem.
OrigC26 ==
    [][ \A p \in Clients :
           \/ ~InFlight(call[p]) /\ call'[p].op = "CreateTheme"
           \/ call[p].op = "CreateTheme" /\ call'[p] # call[p]
           => LET c == IF InFlight(call[p]) THEN call[p] ELSE call'[p]
              IN \A it \in MetadataAt(table, c.themeID) :
                    (it.IsDefault \/ OwnerOf(it) # c.userID) => it \in table' ]_vars

IsMetadataItem(it) == "IsDefault" \in DOMAIN it

IsEntryItem(it) == "EntryDate" \in DOMAIN it

IsLinkItem(it) == ~IsMetadataItem(it) /\ ~IsEntryItem(it)

ThemeRepositoryOps == {"CreateTheme", "UpdateTheme", "DeleteTheme"}

EntryRepositoryOps == {"CreateEntry", "UpdateEntry", "DeleteEntry"}

\* Two stored items of different kinds have different keys: their
\* partition-key prefixes or their sort-key prefixes differ.
KeysDisjoint ==
    \A a, b \in table :
       (\/ IsMetadataItem(a) /\ ~IsMetadataItem(b)
        \/ IsLinkItem(a) /\ IsEntryItem(b))
          => a.PK[1] # b.PK[1] \/ a.SK[1] # b.SK[1]

\* No step of the theme repository changes, adds or removes an entry item,
\* and no step of the entry repository changes, adds or removes a metadata
\* or link item.
NoInterference ==
    /\ ActingOp(ThemeRepositoryOps)
          => {it \in table' : IsEntryItem(it)} = {it \in table : IsEntryItem(it)}
    /\ ActingOp(EntryRepositoryOps)
          => {it \in table' : ~IsEntryItem(it)} = {it \in table : ~IsEntryItem(it)}

\* C24 (as stated): the keys of metadata, link and entry items are pairwise
\* different, no write of one repository touches an item of the other, and
\* the items written by the theme repository and those written by the entry
\* repository have disjoint partition-key prefixes.
OrigC24 ==
    /\ [](/\ KeysDisjoint
          /\ \A a, b \in table :
                (~IsEntryItem(a) /\ IsEntryItem(b)) => a.PK[1] # b.PK[1])
    /\ [][NoInterference]_vars

\* C24: the keys of metadata, link and entry items are pairwise different
\* and no write of one repository touches an item of the other.  Metadata
\* items are apart from the others by their partition-key prefix (THEME
\* against USER); link items and entry items share the partition of their
\* user and are apart by their sort-key prefix (THEME against ENTRY).
ThmC24 ==
    /\ [](/\ KeysDisjoint
          /\ \A a, b \in table :
                /\ (IsMetadataItem(a) /\ ~IsMetadataItem(b)) => a.PK[1] # b.PK[1]
                /\ (IsLinkItem(a) /\ IsEntryItem(b)) => a.SK[1] # b.SK[1])
    /\ [][NoInterference]_vars

\* A DeleteTheme has returned nil, having deleted the metadata item and the
\* link item of a theme, and an entry of the same user is stored.
WitC24 ==
    /\ ret.op = "DeleteTheme" /\ ret.result = "ok" /\ ret.logged = {}
    /\ \E e \in table : IsEntryItem(e) /\ e.PK = userPK(ret.userID)

\* A DeleteEntry has returned nil, having deleted an entry in the partition
\* that holds the link item of the entry's theme.
WitC24Entry ==
    /\ ret.op = "DeleteEntry" /\ ret.result = "ok"
    /\ Exists(table, userPK(ret.userID), userThemeLinkSK("t1"))
    /\ MetadataAt(table, "t1") # {}

\* The keys of every stored item, derived from its attributes with the
\* partition-key prefix given for the items of a user.
KeyFormat(prefix) ==
    \A it \in table :
       /\ IsEntryItem(it)
             => /\ it.PK = <<prefix, it.UserID>>
                /\ it.SK = <<"ENTRY", it.EntryDate, it.EntryID>>
                /\ it.GSI1SK = <<"ENTRY_DATE", it.EntryDate, it.ThemeID>>
       /\ IsLinkItem(it)
             => /\ it.PK = <<prefix, it.UserID>>
                /\ it.SK = <<"THEME", it.ThemeID>>
       /\ IsMetadataItem(it)
             => /\ it.PK = <<"THEME", it.ThemeID>>
                /\ it.SK = <<"METADATA">>

\* C25 (as stated): the entry key is partition OWNER#<OwnerID> with sort
\* ENTRY#<EntryDate>#<EntryID>, the ownership-link key is partition
\* OWNER#<OwnerID> with sort THEME#<ThemeID>, the theme metadata key is
\* partition THEME#<ThemeID> with sort METADATA, and the entry index-sort key
\* is ENTRY_DATE#<EntryDate>#<ThemeID>.
OrigC25 == KeyFormat("OWNER")

\* C25: the entry key is partition USER#<UserID> with sort
\* ENTRY#<EntryDate>#<EntryID>, the ownership-link key is partition
\* USER#<UserID> with sort THEME#<ThemeID>, the theme metadata key is
\* partition THEME#<ThemeID> with sort METADATA, and the entry index-sort key
\* is ENTRY_DATE#<EntryDate>#<ThemeID>.
ThmC25 == KeyFormat("USER")

\* A metadata item, a link item and an entry item are stored, the entry by
\* the CreateEntry that has just returned.
WitC25 ==
    /\ \E it \in table : IsMetadataItem(it)
    /\ \E it \in table : IsLinkItem(it)
    /\ \E it \in table : IsEntryItem(it) /\ it.EntryID = ret.id
    /\ ret.op = "CreateEntry" /\ ret.result = "ok"

====
